---- MODULE Spec2Model ----
(***************************************************************************)
(* Value aggregation of dkd-dobberkau/valuePM.                             *)
(*                                                                         *)
(* Two programs compute the same dashboard:                                *)
(*   "api"    the FastAPI services over the SQLAlchemy store               *)
(*            (src/src/services/*.py, src/src/db/models.py)                *)
(*   "script" the in-memory classes of src/value_project_mgmt.py           *)
(* A behaviour is a run of one of the two programs (variable program).     *)
(* Spec explores the dashboards, SpecPortfolio the portfolio overview,      *)
(* SpecRecent the lists of recent measurements, SpecStore the store under  *)
(* every writing operation, SpecMixed two projects side by side, SpecAdmin *)
(* the operations on projects, stakeholders and their links, on ids that   *)
(* exist and on ids that do not, SpecRace create_measurement requests and  *)
(* SpecRegister register requests served by two processes at a time.       *)
(*                                                                         *)
(* Numbers: Python floats are modelled as exact rationals <<n, d>> with    *)
(* d > 0 and gcd(n, d) = 1; stored values are integers.  An Optional[x]    *)
(* is <<>> (None) or <<x>>.                                                *)
(***************************************************************************)
EXTENDS Integers, Sequences, FiniteSets, TLC

(* ------------------------------ bounds -------------------------------- *)
MaxValue == 2
MaxBaseline == 1
MaxProjects == 2
MaxMetrics == 2
MaxMeasurements == 2
MaxRows == 4
MaxDeliverables == 3
MaxStakeholders == 1
MaxRecent == 6
MaxStoreRows == 5
MaxClock == 2
MaxRequests == 2
MaxRaceClock == 3
MaxRaceMeasurements == 3
MaxAdminRows == 3
MaxUsers == 3
MaxAdminMeasurements == 1
MaxAdminClock == 1
MaxRecentRows == 9
TicksPerDay == 2

Values == 0 .. MaxValue
Baselines == 0 .. MaxBaseline
ProjectIds == 1 .. MaxProjects
MetricIds == 1 .. MaxMetrics
MeasurementIds == 1 .. MaxRecent
DeliverableIds == 1 .. MaxDeliverables
StakeholderIds == 1 .. MaxStakeholders
RequestIds == 1 .. MaxRequests
UserIds == 1 .. MaxUsers
Emails == {"a@x", "b@x"}
Usernames == {"a", "b"}
MetricNames == {"a", "b"}

(* ------------------------- enumerations ------------------------------- *)
MetricType == {"currency", "percentage", "time", "count", "score"}
DeliverableStatus == {"planned", "in_progress", "completed", "cancelled"}

(* ------------------------- Optional values ---------------------------- *)
None == <<>>
Some(x) == <<x>>
IsNone(o) == o = <<>>
Get(o) == o[1]

(* ------------------------- float arithmetic --------------------------- *)
Abs(x) == IF x < 0 THEN -x ELSE x

RECURSIVE GCD(_, _)
GCD(a, b) == IF b = 0 THEN a ELSE GCD(b, a % b)

\* what evaluating n / d yields when d = 0: the exception, not a float
ZeroDivisionError == <<0, 0>>

\* the float n / d
Rat(n, d) ==
    IF d = 0 THEN ZeroDivisionError
    ELSE LET g == GCD(Abs(n), Abs(d))
             s == IF d < 0 THEN -1 ELSE 1
         IN  <<(s * n) \div g, (s * d) \div g>>

Float(i) == <<i, 1>>
RatMul(x, y) == Rat(x[1] * y[1], x[2] * y[2])
RatAdd(x, y) == Rat(x[1] * y[2] + y[1] * x[2], x[2] * y[2])
RatLess(x, y) == x[1] * y[2] < y[1] * x[2]

\* Python's max(a, b) and min(a, b): the first argument unless the second
\* is strictly greater (smaller)
PyMax(a, b) == IF RatLess(a, b) THEN b ELSE a
PyMin(a, b) == IF RatLess(b, a) THEN b ELSE a

RECURSIVE SeqSum(_)
SeqSum(s) == IF s = <<>> THEN Float(0) ELSE RatAdd(s[1], SeqSum(Tail(s)))


(* ------------------------------ state --------------------------------- *)
VARIABLES
    program,          \* which program this run is: "api" or "script"
    now,              \* last reading of the wall clock (0: not read yet)
    s_metrics,        \* script: Project.metrics, a dict in insertion order
    s_measurements,   \* script: Project.measurements, a list
    s_deliverables,   \* script: Project.deliverables, id -> status
    projects,         \* api: ids of the rows of table projects
    metrics,          \* api: table value_metrics, id -> row
    measurements,     \* api: table measurements, id -> row
    deliverables,     \* api: table deliverables, id -> row
    stakeholders,     \* api: ids of the rows of table stakeholders
    project_data,     \* api: columns of the rows of projects, id -> row
    stakeholder_data, \* api: columns of the rows of stakeholders, id -> row
    project_stakeholders, \* api: table project_stakeholders, a set of pairs
    users,            \* api: table users, id -> row
    measuring,        \* api: the create_measurement requests under way
    registering,      \* api: the register requests under way
    response          \* what the last call returned (or raised)

vars == <<program, now, s_metrics, s_measurements, s_deliverables,
          projects, metrics, measurements, deliverables,
          stakeholders, project_stakeholders,
          project_data, stakeholder_data,
          users, measuring, registering, response>>

\* the table of the users and the requests that are served in several steps
tx_vars == <<users, measuring, registering>>

s_vars == <<s_metrics, s_measurements, s_deliverables>>
\* the columns of the projects and of the stakeholders
row_vars == <<project_data, stakeholder_data>>

db_vars == <<projects, metrics, measurements, deliverables,
            stakeholders, project_stakeholders, row_vars>>

(* --------------------- dictionaries keyed by name --------------------- *)
EmptyDict == [k \in {} |-> None]
DictSet(d, k, v) == [x \in DOMAIN d \cup {k} |-> IF x = k THEN v ELSE d[x]]
DictGet(d, k, default) == IF k \in DOMAIN d THEN d[k] ELSE default

RECURSIVE DictValues(_, _)
\* the values of d, for the keys in ks, as a sequence (order is irrelevant
\* to the callers, which only sum them)
DictValues(d, ks) ==
    IF ks = {} THEN <<>>
    ELSE LET k == CHOOSE x \in ks : TRUE
         IN  <<d[k]>> \o DictValues(d, ks \ {k})

(* ======================= src/value_project_mgmt.py ==================== *)

RECURSIVE FirstMaxBy(_, _)
\* Python's max(seq, key=measured_at): the first element with the greatest key
FirstMaxBy(seq, best) ==
    IF seq = <<>> THEN best
    ELSE FirstMaxBy(Tail(seq),
                    IF seq[1].measured_at > best.measured_at THEN seq[1] ELSE best)

\* Project.get_current_value
get_current_value(ms, metric_id) ==
    LET metric_measurements == SelectSeq(ms, LAMBDA m : m.metric_id = metric_id)
    IN  IF metric_measurements = <<>> THEN None
        ELSE Some(FirstMaxBy(Tail(metric_measurements), metric_measurements[1]).value)

\* calculate_roi_step with the guard baseline_value > 0 left out
calculate_roi_step_unguarded(roi_data, metric, current_value) ==
    IF ~IsNone(current_value)
    THEN IF metric.metric_type = "currency"
         THEN DictSet(roi_data, metric.name, Float(Get(current_value)))
         ELSE IF metric.metric_type = "percentage"
              THEN DictSet(roi_data, metric.name,
                           Rat(Get(current_value) - metric.baseline_value,
                               metric.baseline_value))
              ELSE roi_data
    ELSE roi_data

\* calculate_roi_step with the else branch taking the raw value, as the
\* currency branch does
calculate_roi_step_any_type(roi_data, metric, current_value) ==
    IF ~IsNone(current_value)
    THEN IF metric.metric_type = "percentage" /\ metric.baseline_value > 0
         THEN DictSet(roi_data, metric.name,
                      Rat(Get(current_value) - metric.baseline_value,
                          metric.baseline_value))
         ELSE DictSet(roi_data, metric.name, Float(Get(current_value)))
    ELSE roi_data

\* one iteration of the loop of Project.calculate_roi
calculate_roi_step(roi_data, metric, current_value) ==
    IF ~IsNone(current_value)
    THEN IF metric.metric_type = "currency"
         THEN DictSet(roi_data, metric.name, Float(Get(current_value)))
         ELSE IF metric.metric_type = "percentage" /\ metric.baseline_value > 0
              THEN DictSet(roi_data, metric.name,
                           Rat(Get(current_value) - metric.baseline_value,
                               metric.baseline_value))
              ELSE roi_data
    ELSE roi_data

RECURSIVE calculate_roi_loop(_, _, _)
calculate_roi_loop(ms, todo, roi_data) ==
    IF todo = <<>> THEN roi_data
    ELSE calculate_roi_loop(ms, Tail(todo),
            calculate_roi_step(roi_data, todo[1], get_current_value(ms, todo[1].id)))

\* Project.calculate_roi
calculate_roi(mets, ms) == calculate_roi_loop(ms, mets, EmptyDict)

\* progress_percent with min(100, max(0, .)) left out
progress_percent_unclamped(metric, current_value) ==
    LET progress ==
            IF ~IsNone(current_value) /\ metric.target_value # metric.baseline_value
            THEN Rat(Get(current_value) - metric.baseline_value,
                     metric.target_value - metric.baseline_value)
            ELSE Float(0)
    IN  IF progress = ZeroDivisionError THEN ZeroDivisionError
        ELSE RatMul(progress, Float(100))

\* progress_percent of Project.get_value_dashboard
progress_percent(metric, current_value) ==
    LET progress ==
            IF ~IsNone(current_value) /\ metric.target_value # metric.baseline_value
            THEN Rat(Get(current_value) - metric.baseline_value,
                     metric.target_value - metric.baseline_value)
            ELSE Float(0)
    IN  IF progress = ZeroDivisionError THEN ZeroDivisionError
        ELSE PyMin(Float(100), PyMax(Float(0), RatMul(progress, Float(100))))

RECURSIVE metrics_summary_loop(_, _, _)
metrics_summary_loop(ms, todo, summary) ==
    IF todo = <<>> THEN summary
    ELSE LET metric == todo[1]
             current_value == get_current_value(ms, metric.id)
         IN  metrics_summary_loop(ms, Tail(todo),
                DictSet(summary, metric.name,
                        [current |-> current_value,
                         target |-> metric.target_value,
                         baseline |-> metric.baseline_value,
                         progress_percent |-> progress_percent(metric, current_value)]))

RECURSIVE status_counts_loop(_, _, _)
\* the deliverables tally of Project.get_value_dashboard, over the
\* deliverables todo (a set of ids; the tally does not depend on the order)
status_counts_loop(todo, status_of, counts) ==
    IF todo = {} THEN counts
    ELSE LET d == CHOOSE x \in todo : \A y \in todo : x <= y
         IN  status_counts_loop(todo \ {d}, status_of,
                DictSet(counts, status_of[d], DictGet(counts, status_of[d], 0) + 1))

\* measured_at.date(): the day a reading of the clock falls on
Date(t) == t \div TicksPerDay

RECURSIVE InsertDesc(_, _)
\* seq, sorted by descending measured_at, with x put behind the elements
\* that are not earlier than x
InsertDesc(seq, x) ==
    IF seq = <<>> THEN <<x>>
    ELSE IF seq[1].measured_at >= x.measured_at
         THEN <<seq[1]>> \o InsertDesc(Tail(seq), x)
         ELSE <<x>> \o seq

RECURSIVE SortedDesc(_, _)
\* sorted(seq, key=lambda m: m.measured_at, reverse=True) appended to done:
\* the sort is stable, elements of equal key keep their order
SortedDesc(seq, done) ==
    IF seq = <<>> THEN done ELSE SortedDesc(Tail(seq), InsertDesc(done, seq[1]))

\* the slice [:5]
RecentLimit == 5
Slice(seq, n) == SubSeq(seq, 1, IF Len(seq) < n THEN Len(seq) ELSE n)

\* lines 176-185 of Project.get_value_dashboard (notes are passed through
\* and left out)
recent_measurements(mets, ms) ==
    LET recent == Slice(SortedDesc(ms, <<>>), RecentLimit)
        metric_name(id) == (CHOOSE m \in {mets[i] : i \in DOMAIN mets} : m.id = id).name
    IN  [i \in DOMAIN recent |->
            [metric |-> metric_name(recent[i].metric_id),
             value |-> recent[i].value,
             date |-> Date(recent[i].measured_at)]]

\* a ZeroDivisionError raised while building the summaries ends the call
Raised(summary, roi) ==
    \/ \E n \in DOMAIN summary : summary[n].progress_percent = ZeroDivisionError
    \/ \E n \in DOMAIN roi : roi[n] = ZeroDivisionError

\* Project.get_value_dashboard
get_value_dashboard(mets, ms, dels) ==
    LET roi == calculate_roi(mets, ms)
        summary == metrics_summary_loop(ms, mets, EmptyDict)
        raised == Raised(summary, roi)
    IN  [op |-> "get_value_dashboard",
         project_id |-> 0,
         status |-> IF raised THEN "ZeroDivisionError" ELSE "ok",
         line |-> 0,
         metrics_summary |-> IF raised THEN EmptyDict ELSE summary,
         recent_measurements |->
            IF raised THEN <<>> ELSE recent_measurements(mets, ms),
         roi_summary |-> IF raised THEN EmptyDict ELSE roi,
         deliverables_status |->
            IF raised THEN EmptyDict
            ELSE status_counts_loop(DOMAIN dels, dels, EmptyDict),
         current_roi |-> EmptyDict]

\* ValueProjectManager.get_portfolio_overview, for a manager holding this
\* one project (id 0): its entry of "projects" carries current_roi
s_get_portfolio_overview(mets, ms) ==
    LET roi_summary == calculate_roi(mets, ms)
        raised == Raised(EmptyDict, roi_summary)
    IN  [op |-> "get_portfolio_overview",
         project_id |-> 0,
         status |-> IF raised THEN "ZeroDivisionError" ELSE "ok",
         line |-> 0,
         metrics_summary |-> EmptyDict,
         recent_measurements |-> <<>>,
         roi_summary |-> EmptyDict,
         deliverables_status |-> EmptyDict,
         current_roi |->
            IF raised THEN EmptyDict
            ELSE DictSet(EmptyDict, 0,
                    IF DOMAIN roi_summary # {}
                    THEN SeqSum(DictValues(roi_summary, DOMAIN roi_summary))
                    ELSE Float(0))]

NoResponse ==
    [op |-> "none", project_id |-> 0, status |-> "none", line |-> 0,
     metrics_summary |-> EmptyDict, recent_measurements |-> <<>>,
     roi_summary |-> EmptyDict,
     deliverables_status |-> EmptyDict, current_roi |-> EmptyDict]

\* the objects (script) or rows (api) that exist, the project(s) included
Rows ==
    IF program = "script"
    THEN 1 + Len(s_metrics) + Len(s_measurements) + Cardinality(DOMAIN s_deliverables)
    ELSE Cardinality(projects) + Cardinality(DOMAIN metrics)
            + Cardinality(DOMAIN measurements) + Cardinality(DOMAIN deliverables)
            + Cardinality(stakeholders)

\* the id of a new row (a uuid4).  An id that a delete has freed may be given
\* again: the foreign keys and the cascades leave no row that refers to it
FreshId(used, ids) == CHOOSE i \in ids \ used : \A j \in ids \ used : i <= j

(* ------------------------- script operations -------------------------- *)
SMetricIndex(id) == {i \in DOMAIN s_metrics : s_metrics[i].id = id}

\* the readings datetime.now() / datetime.utcnow() can give next: the clock
\* never goes back, and two readings can be equal
Readings == {t \in {now, now + 1} : t > 0}

\* Project.add_metric: self.metrics[metric.id] = metric, where metric.id is
\* the uuid4 the dataclass draws, a fresh key
add_metric(name, metric_type, target_value, baseline_value, is_active) ==
    LET metric == [id |-> Len(s_metrics) + 1, name |-> name,
                   metric_type |-> metric_type,
                   target_value |-> target_value, baseline_value |-> baseline_value,
                   is_active |-> is_active]
    IN  /\ program = "script"
        /\ s_metrics' = Append(s_metrics, metric)
        /\ response' = NoResponse
        /\ UNCHANGED <<program, tx_vars, now, s_measurements, s_deliverables, db_vars>>

\* record_measurement without the check of metric_id
record_measurement_unchecked(metric_id, value, t) ==
    /\ program = "script"
    /\ t \in Readings
    /\ s_measurements' = Append(s_measurements,
            [metric_id |-> metric_id, value |-> value, measured_at |-> t])
    /\ now' = t
    /\ response' = NoResponse
    /\ UNCHANGED <<program, tx_vars, s_metrics, s_deliverables, db_vars>>

\* Project.record_measurement; t is datetime.now()
record_measurement(metric_id, value, t) ==
    /\ program = "script"
    /\ t \in Readings
    /\ IF SMetricIndex(metric_id) = {}
       THEN /\ response' = [NoResponse EXCEPT !.op = "record_measurement",
                                               !.status = "ValueError"]
            /\ UNCHANGED <<now, s_measurements>>
       ELSE /\ s_measurements' = Append(s_measurements,
                    [metric_id |-> metric_id, value |-> value, measured_at |-> t])
            /\ now' = t
            /\ response' = NoResponse
    /\ UNCHANGED <<program, tx_vars, s_metrics, s_deliverables, db_vars>>

\* the caller's project.deliverables[d.id] = d, where d.id is the uuid4 the
\* dataclass draws, a fresh key (Project has no method that adds one)
s_add_deliverable(status) ==
    /\ program = "script"
    /\ DOMAIN s_deliverables # DeliverableIds
    /\ s_deliverables' = DictSet(s_deliverables,
            FreshId(DOMAIN s_deliverables, DeliverableIds), status)
    /\ response' = NoResponse
    /\ UNCHANGED <<program, tx_vars, now, s_metrics, s_measurements, db_vars>>

s_dashboard ==
    /\ program = "script"
    /\ response' = get_value_dashboard(s_metrics, s_measurements, s_deliverables)
    /\ UNCHANGED <<program, tx_vars, now, s_vars, db_vars>>

s_portfolio ==
    /\ program = "script"
    /\ response' = s_get_portfolio_overview(s_metrics, s_measurements)
    /\ UNCHANGED <<program, tx_vars, now, s_vars, db_vars>>

(* ============================ src/src ================================= *)

\* models.py: project_type and metric_type are String columns, so a loaded
\* row carries a Python str, and a str has no attribute "value"
StrHasValueAttr == FALSE

\* ProjectMetrics without the filter on project_id: the metrics of all projects
AllMetrics(project_id) == DOMAIN metrics

ProjectMetrics(project_id) ==
    {m \in DOMAIN metrics : metrics[m].project_id = project_id}

\* the orders in which a query without ORDER BY may return the rows ids
Orders(ids) ==
    {o \in [1 .. Cardinality(ids) -> ids] :
        \A i, j \in 1 .. Cardinality(ids) : i # j => o[i] # o[j]}

\* Measurement rows of a metric with the greatest measured_at: what
\* order_by(measured_at.desc()).first() may return (0: no row)
LatestRows(metric_id) ==
    LET mine == {i \in DOMAIN measurements : measurements[i].metric_id = metric_id}
    IN  IF mine = {} THEN {0}
        ELSE {i \in mine : \A j \in mine :
                measurements[j].measured_at <= measurements[i].measured_at}

Firsts(ids) ==
    {f \in [ids -> MeasurementIds \cup {0}] : \A m \in ids : f[m] \in LatestRows(m)}

\* lines 89-92: the results the query of the project's measurements,
\* ORDER BY measured_at DESC LIMIT 5, may give (ties in any order)
ServiceRecentLimit == 5
RecentQueries(project_id) ==
    LET mine == {i \in DOMAIN measurements : measurements[i].project_id = project_id}
        sorted == {o \in Orders(mine) :
                    \A i, j \in DOMAIN o :
                        i < j => measurements[o[i]].measured_at
                                    >= measurements[o[j]].measured_at}
    IN  {Slice(o, ServiceRecentLimit) : o \in sorted}

\* lines 146-151: the entries of recent_measurements, of the rows recent
service_recent_measurements(recent) ==
    [i \in DOMAIN recent |->
        [metric |-> metrics[measurements[recent[i]].metric_id].name,
         value |-> measurements[recent[i]].value,
         date |-> Date(measurements[recent[i]].measured_at)]]

\* lines 110-121 of ProjectService.get_project_dashboard
service_progress_percent(metric, current_value) ==
    LET progress ==
            IF ~IsNone(current_value) /\ metric.target_value # metric.baseline_value
            THEN Rat(Get(current_value) - metric.baseline_value,
                     metric.target_value - metric.baseline_value)
            ELSE Float(0)
    IN  IF progress = ZeroDivisionError THEN ZeroDivisionError
        ELSE PyMin(Float(100), PyMax(Float(0), RatMul(progress, Float(100))))

\* lines 123-129: st is the loop's state [summary, roi, status, line]
service_roi_step(st, metric, current_value) ==
    IF ~IsNone(current_value)
    THEN IF ~StrHasValueAttr
         THEN [st EXCEPT !.status = "AttributeError", !.line = 125]
         ELSE IF metric.metric_type = "currency"
              THEN [st EXCEPT !.roi = DictSet(st.roi, metric.name,
                                              Float(Get(current_value)))]
              ELSE IF metric.metric_type = "percentage" /\ metric.baseline_value > 0
                   THEN [st EXCEPT !.roi = DictSet(st.roi, metric.name,
                            Rat(Get(current_value) - metric.baseline_value,
                                metric.baseline_value))]
                   ELSE st
    ELSE st

RECURSIVE service_metrics_loop(_, _, _)
\* lines 98-129: the loop over project.metrics, in the order todo
service_metrics_loop(todo, first, st) ==
    IF todo = <<>> \/ st.status # "ok" THEN st
    ELSE LET metric == metrics[todo[1]]
             latest_measurement == first[todo[1]]
             current_value == IF latest_measurement # 0
                              THEN Some(measurements[latest_measurement].value)
                              ELSE None
             progress_percent_ == service_progress_percent(metric, current_value)
             summarised ==
                IF progress_percent_ = ZeroDivisionError
                THEN [st EXCEPT !.status = "ZeroDivisionError", !.line = 113]
                ELSE [st EXCEPT !.summary = DictSet(st.summary, metric.name,
                        [current |-> current_value,
                         target |-> metric.target_value,
                         baseline |-> metric.baseline_value,
                         progress_percent |-> progress_percent_])]
         IN  IF ~metric.is_active
             THEN service_metrics_loop(Tail(todo), first, st)
             ELSE service_metrics_loop(Tail(todo), first,
                    IF summarised.status # "ok" THEN summarised
                    ELSE service_roi_step(summarised, metric, current_value))

\* lines 131-138: SELECT status, count(id) ... GROUP BY status
deliverables_status_query(project_id) ==
    LET rows == {d \in DOMAIN deliverables : deliverables[d].project_id = project_id}
        groups == {deliverables[d].status : d \in rows}
    IN  [s \in groups |-> Cardinality({d \in rows : deliverables[d].status = s})]

\* ProjectService.get_project_dashboard; order, first and recent resolve
\* what the database leaves open.  When the call raises, metrics_summary, roi_summary
\* and deliverables_status are the locals built so far; nothing is returned.
get_project_dashboard(project_id, order, first, recent) ==
    LET blank == [NoResponse EXCEPT !.op = "get_project_dashboard",
                                    !.project_id = project_id]
        st == service_metrics_loop(order, first,
                [summary |-> EmptyDict, roi |-> EmptyDict, status |-> "ok", line |-> 0])
        built == [blank EXCEPT !.metrics_summary = st.summary,
                               !.roi_summary = st.roi]
    IN  IF project_id \notin projects
        THEN [blank EXCEPT !.status = "not_found"]
        ELSE IF st.status # "ok"
             THEN [built EXCEPT !.status = st.status, !.line = st.line]
             ELSE LET counted == [built EXCEPT !.deliverables_status =
                                        deliverables_status_query(project_id)]
                  IN  IF ~StrHasValueAttr
                      THEN [counted EXCEPT !.status = "AttributeError", !.line = 144]
                      ELSE [counted EXCEPT !.status = "ok",
                                !.recent_measurements =
                                    service_recent_measurements(recent)]

RECURSIVE roi_total_loop(_, _)
\* lines 181-186 of ProjectService.get_portfolio_overview
roi_total_loop(todo, roi_total) ==
    IF todo = {} THEN roi_total
    ELSE LET m == CHOOSE x \in todo : \A y \in todo : x <= y
             metric == metrics[m]
         IN  roi_total_loop(todo \ {m},
                IF ~IsNone(metric.current_value) /\ metric.metric_type = "currency"
                THEN RatAdd(roi_total, Float(Get(metric.current_value)))
                ELSE roi_total)

RECURSIVE portfolio_loop(_, _)
\* lines 170-195: the loop over the projects, in the order todo
portfolio_loop(todo, st) ==
    IF todo = <<>> \/ st.status # "ok" THEN st
    ELSE IF ~StrHasValueAttr
         THEN [st EXCEPT !.status = "AttributeError", !.line = 172]
         ELSE portfolio_loop(Tail(todo),
                [st EXCEPT !.current_roi = DictSet(st.current_roi, todo[1],
                    roi_total_loop(ProjectMetrics(todo[1]), Float(0)))])

\* ProjectService.get_portfolio_overview
get_portfolio_overview(order) ==
    portfolio_loop(order, [NoResponse EXCEPT !.op = "get_portfolio_overview",
                                             !.status = "ok"])

(* --------------------------- api operations --------------------------- *)

\* a member of an enum.Enum class of src/src/core/enums.py
Member(enum, value) == [enum |-> enum, value |-> value]

\* str == member, for a member of a class that derives from Enum alone: the
\* classes define no __eq__ and are no subclasses of str, so the comparison
\* is by identity and a str is never equal to a member
StrEqualsMember(str, member) == FALSE

\* TemplateService._infrastructure_metrics; 99.9 is the rational 999/10
_infrastructure_metrics ==
    <<[name |-> "System Availability", metric_type |-> Member("MetricType", "percentage"),
       target_value |-> Rat(999, 10), baseline_value |-> 95],
      [name |-> "Response Time", metric_type |-> Member("MetricType", "time"),
       target_value |-> 200, baseline_value |-> 500],
      [name |-> "Infrastructure Cost", metric_type |-> Member("MetricType", "currency"),
       target_value |-> 8000, baseline_value |-> 10000]>>

\* TemplateService._software_development_metrics
_software_development_metrics ==
    <<[name |-> "User Adoption Rate", metric_type |-> Member("MetricType", "percentage"),
       target_value |-> 80, baseline_value |-> 0],
      [name |-> "Development Velocity", metric_type |-> Member("MetricType", "count"),
       target_value |-> 50, baseline_value |-> 30],
      [name |-> "Bug Resolution Time", metric_type |-> Member("MetricType", "time"),
       target_value |-> 24, baseline_value |-> 72]>>

\* TemplateService._digital_transformation_metrics
_digital_transformation_metrics ==
    <<[name |-> "Process Automation Rate", metric_type |-> Member("MetricType", "percentage"),
       target_value |-> 70, baseline_value |-> 10],
      [name |-> "Employee Productivity", metric_type |-> Member("MetricType", "count"),
       target_value |-> 15, baseline_value |-> 10],
      [name |-> "Data Quality Score", metric_type |-> Member("MetricType", "score"),
       target_value |-> 90, baseline_value |-> 60]>>

\* TemplateService.get_template_metrics; project_type is the str of
\* ProjectCreate.project_type
get_template_metrics(project_type) ==
    IF StrEqualsMember(project_type, Member("ProjectType", "infrastructure"))
    THEN _infrastructure_metrics
    ELSE IF StrEqualsMember(project_type, Member("ProjectType", "software_development"))
         THEN _software_development_metrics
         ELSE IF StrEqualsMember(project_type, Member("ProjectType", "digital_transformation"))
              THEN _digital_transformation_metrics
              ELSE <<>>

RECURSIVE add_template_metrics(_, _, _)
\* lines 36-41 of ProjectService.create_project: a ValueMetric row for every
\* metric_data, with the column defaults current_value None, is_active True
add_template_metrics(rows, project_id, template_metrics) ==
    IF template_metrics = <<>> THEN rows
    ELSE add_template_metrics(
            DictSet(rows, FreshId(DOMAIN rows, MetricIds),
                [project_id |-> project_id,
                 name |-> template_metrics[1].name,
                 metric_type |-> template_metrics[1].metric_type,
                 target_value |-> template_metrics[1].target_value,
                 baseline_value |-> template_metrics[1].baseline_value,
                 current_value |-> None,
                 is_active |-> TRUE]),
            project_id, Tail(template_metrics))

\* ProjectService.create_project: the Project row (a str has no attribute
\* value, so project_type and status are stored as they come), then the
\* template metrics, in one commit
create_project(project_type, status, use_template) ==
    LET id == FreshId(projects, ProjectIds)
        template_metrics == IF use_template THEN get_template_metrics(project_type)
                            ELSE <<>>
    IN  /\ program = "api"
        /\ projects # ProjectIds
        /\ Cardinality(DOMAIN metrics) + Len(template_metrics) <= MaxMetrics
        /\ projects' = projects \cup {id}
        /\ project_data' = DictSet(project_data, id,
                [project_type |-> project_type, status |-> status])
        /\ metrics' = add_template_metrics(metrics, id, template_metrics)
        /\ response' = NoResponse
        /\ UNCHANGED <<program, tx_vars, now, s_vars, measurements, deliverables,
                     stakeholders, project_stakeholders, stakeholder_data>>

\* MetricService.create_metric.  The database checks the foreign key
\* project_id at commit: a request naming no project raises IntegrityError
\* and stores nothing, so only the request that commits is a step.
create_metric(project_id, name, metric_type, target_value, baseline_value, current_value, is_active) ==
    /\ program = "api"
    /\ DOMAIN metrics # MetricIds
    /\ project_id \in projects
    /\ metrics' = DictSet(metrics, FreshId(DOMAIN metrics, MetricIds),
            [project_id |-> project_id, name |-> name,
             metric_type |-> metric_type,
             target_value |-> target_value,
             baseline_value |-> baseline_value,
             current_value |-> current_value,
             is_active |-> is_active])
    /\ response' = NoResponse
    /\ UNCHANGED <<program, tx_vars, row_vars, now, s_vars, projects, measurements, deliverables,
                 stakeholders, project_stakeholders>>

\* create_measurement writing over the oldest stored row instead of adding one
create_measurement_overwriting(metric_id, project_id, value, notes, confidence_level, t) ==
    /\ program = "api"
    /\ DOMAIN measurements # MeasurementIds
    /\ t \in Readings
    /\ project_id \in projects
    /\ metric_id \in DOMAIN metrics
    /\ measurements' = DictSet(measurements,
            IF DOMAIN measurements = {} THEN FreshId(DOMAIN measurements, MeasurementIds)
            ELSE CHOOSE i \in DOMAIN measurements : \A j \in DOMAIN measurements : i <= j,
            [metric_id |-> metric_id, project_id |-> project_id,
             value |-> value, measured_at |-> t,
             notes |-> notes, confidence_level |-> confidence_level])
    /\ metrics' = [metrics EXCEPT ![metric_id].current_value = Some(value)]
    /\ now' = t
    /\ response' = NoResponse
    /\ UNCHANGED <<program, tx_vars, row_vars, s_vars, projects, deliverables,
                 stakeholders, project_stakeholders>>

\* create_measurement without the update of the metric's current_value
create_measurement_only(metric_id, project_id, value, notes, confidence_level, t) ==
    /\ program = "api"
    /\ DOMAIN measurements # MeasurementIds
    /\ t \in Readings
    /\ project_id \in projects
    /\ metric_id \in DOMAIN metrics
    /\ measurements' = DictSet(measurements,
            FreshId(DOMAIN measurements, MeasurementIds),
            [metric_id |-> metric_id, project_id |-> project_id,
             value |-> value, measured_at |-> t,
             notes |-> notes, confidence_level |-> confidence_level])
    /\ now' = t
    /\ response' = NoResponse
    /\ UNCHANGED <<program, tx_vars, row_vars, s_vars, projects, metrics, deliverables,
                 stakeholders, project_stakeholders>>

\* MeasurementService.create_measurement; measured_at is the column default
\* datetime.utcnow, t.  The foreign keys metric_id and project_id are checked
\* at commit, each on its own.
create_measurement(metric_id, project_id, value, notes, confidence_level, t) ==
    /\ program = "api"
    /\ DOMAIN measurements # MeasurementIds
    /\ t \in Readings
    /\ project_id \in projects
    /\ metric_id \in DOMAIN metrics
    /\ measurements' = DictSet(measurements,
            FreshId(DOMAIN measurements, MeasurementIds),
            [metric_id |-> metric_id, project_id |-> project_id,
             value |-> value, measured_at |-> t,
             notes |-> notes, confidence_level |-> confidence_level])
    /\ metrics' = [metrics EXCEPT ![metric_id].current_value = Some(value)]
    /\ now' = t
    /\ response' = NoResponse
    /\ UNCHANGED <<program, tx_vars, row_vars, s_vars, projects, deliverables,
                 stakeholders, project_stakeholders>>

\* a row of table deliverables, written by the persistence collaborator (no
\* service of the repository writes the table)
insert_deliverable(project_id, status) ==
    /\ program = "api"
    /\ DOMAIN deliverables # DeliverableIds
    /\ project_id \in projects
    /\ deliverables' = DictSet(deliverables,
            FreshId(DOMAIN deliverables, DeliverableIds),
            [project_id |-> project_id, status |-> status])
    /\ response' = NoResponse
    /\ UNCHANGED <<program, tx_vars, row_vars, now, s_vars, projects, metrics, measurements,
                 stakeholders, project_stakeholders>>

\* the dashboard request committing what line 108 assigns: the current_value
\* of every active metric of the project becomes that of its latest measurement
dashboard_committing(project_id) ==
    /\ program = "api"
    /\ \E order \in Orders(ProjectMetrics(project_id)) :
       \E first \in Firsts(ProjectMetrics(project_id)) :
       \E recent \in RecentQueries(project_id) :
            /\ response' = get_project_dashboard(project_id, order, first, recent)
            /\ metrics' = [m \in DOMAIN metrics |->
                    IF m \in ProjectMetrics(project_id) /\ metrics[m].is_active
                    THEN [metrics[m] EXCEPT !.current_value =
                            IF first[m] # 0 THEN Some(measurements[first[m]].value)
                            ELSE None]
                    ELSE metrics[m]]
    /\ UNCHANGED <<program, tx_vars, row_vars, now, s_vars, projects, measurements, deliverables,
                 stakeholders, project_stakeholders>>

\* GET /projects/{project_id}/dashboard.  Line 108 assigns current_value on
\* the loaded metric; the request's session (autoflush off) is closed without
\* a commit, so the row keeps its value.
dashboard(project_id) ==
    /\ program = "api"
    /\ \E order \in Orders(ProjectMetrics(project_id)) :
       \E first \in Firsts(ProjectMetrics(project_id)) :
       \E recent \in RecentQueries(project_id) :
            response' = get_project_dashboard(project_id, order, first, recent)
    /\ UNCHANGED <<program, tx_vars, now, s_vars, db_vars>>

\* GET /projects/portfolio/overview
portfolio ==
    /\ program = "api"
    /\ \E order \in Orders(projects) : response' = get_portfolio_overview(order)
    /\ UNCHANGED <<program, tx_vars, now, s_vars, db_vars>>

\* the rows of table d that keep holds
DictKeep(d, keep) == [k \in DOMAIN d \cap keep |-> d[k]]

\* lines 40-41 of MetricService.update_metric: setattr for every field of
\* update_data, the dict of the fields the request set
ApplyUpdate(db_metric, update_data) ==
    [field \in DOMAIN db_metric |->
        IF field \in DOMAIN update_data THEN update_data[field]
        ELSE db_metric[field]]

\* the answer of an operation that found no row to work on
NotFound(op) == [NoResponse EXCEPT !.op = op, !.status = "not_found"]

\* MetricService.update_metric
update_metric(metric_id, update_data) ==
    /\ program = "api"
    /\ IF metric_id \notin DOMAIN metrics
       THEN /\ response' = NotFound("update_metric")
            /\ UNCHANGED metrics
       ELSE /\ metrics' = [metrics EXCEPT
                    ![metric_id] = ApplyUpdate(metrics[metric_id], update_data)]
            /\ response' = NoResponse
    /\ UNCHANGED <<program, tx_vars, row_vars, now, s_vars, projects, measurements, deliverables,
                 stakeholders, project_stakeholders>>

\* MetricService.get_metric: the row with the id, None without one
get_metric(metric_id) ==
    IF metric_id \in DOMAIN metrics THEN Some(metrics[metric_id]) ELSE None

\* MetricService.get_project_metrics: the ids of the rows returned
get_project_metrics(project_id, active_only) ==
    {m \in DOMAIN metrics :
        /\ metrics[m].project_id = project_id
        /\ active_only => metrics[m].is_active}

\* delete_metric deleting the row, db.delete(db_metric)
delete_metric_hard(metric_id) ==
    /\ program = "api"
    /\ IF metric_id \notin DOMAIN metrics
       THEN /\ response' = NotFound("delete_metric")
            /\ UNCHANGED metrics
       ELSE /\ metrics' = DictKeep(metrics, DOMAIN metrics \ {metric_id})
            /\ response' = NoResponse
    /\ UNCHANGED <<program, tx_vars, row_vars, now, s_vars, projects, measurements, deliverables,
                 stakeholders, project_stakeholders>>

\* MetricService.delete_metric: the row stays, is_active is cleared
delete_metric(metric_id) ==
    /\ program = "api"
    /\ IF metric_id \notin DOMAIN metrics
       THEN /\ response' = NotFound("delete_metric")
            /\ UNCHANGED metrics
       ELSE /\ metrics' = [metrics EXCEPT ![metric_id].is_active = FALSE]
            /\ response' = NoResponse
    /\ UNCHANGED <<program, tx_vars, row_vars, now, s_vars, projects, measurements, deliverables,
                 stakeholders, project_stakeholders>>

\* delete_measurement answering not-found after deleting the measurements
\* there are
delete_measurement_sweeping(measurement_id) ==
    /\ program = "api"
    /\ IF measurement_id \notin DOMAIN measurements
       THEN /\ response' = NotFound("delete_measurement")
            /\ measurements' = EmptyDict
       ELSE /\ measurements' = DictKeep(measurements,
                                    DOMAIN measurements \ {measurement_id})
            /\ response' = NoResponse
    /\ UNCHANGED <<program, tx_vars, row_vars, now, s_vars, projects, metrics, deliverables,
                 stakeholders, project_stakeholders>>

\* MeasurementService.delete_measurement: the row goes, the metric's row is
\* not touched
delete_measurement(measurement_id) ==
    /\ program = "api"
    /\ IF measurement_id \notin DOMAIN measurements
       THEN /\ response' = NotFound("delete_measurement")
            /\ UNCHANGED measurements
       ELSE /\ measurements' = DictKeep(measurements,
                                    DOMAIN measurements \ {measurement_id})
            /\ response' = NoResponse
    /\ UNCHANGED <<program, tx_vars, row_vars, now, s_vars, projects, metrics, deliverables,
                 stakeholders, project_stakeholders>>

\* ProjectService.delete_project: db.delete(project) cascades along
\* Project.metrics, Project.measurements and Project.deliverables, and from
\* each deleted metric along ValueMetric.measurements (models.py, lines 49-51
\* and 77); the project's rows of the association table go, the stakeholders
\* stay (line 52)
delete_project(project_id) ==
    /\ program = "api"
    /\ IF project_id \notin projects
       THEN /\ response' = NotFound("delete_project")
            /\ UNCHANGED db_vars
       ELSE LET gone == ProjectMetrics(project_id)
            IN  /\ projects' = projects \ {project_id}
                /\ metrics' = DictKeep(metrics, DOMAIN metrics \ gone)
                /\ measurements' = DictKeep(measurements,
                        {i \in DOMAIN measurements :
                            /\ measurements[i].project_id # project_id
                            /\ measurements[i].metric_id \notin gone})
                /\ deliverables' = DictKeep(deliverables,
                        {d \in DOMAIN deliverables :
                            deliverables[d].project_id # project_id})
                /\ project_stakeholders' =
                        {a \in project_stakeholders : a[1] # project_id}
                /\ project_data' = DictKeep(project_data, projects \ {project_id})
                /\ response' = NoResponse
                /\ UNCHANGED <<stakeholders, stakeholder_data>>
    /\ UNCHANGED <<program, tx_vars, now, s_vars>>

\* StakeholderService.create_stakeholder
create_stakeholder(role, primary_value_interests) ==
    LET value_interests == [i \in DOMAIN primary_value_interests |->
                                primary_value_interests[i].value]
    IN  /\ program = "api"
        /\ stakeholders # StakeholderIds
        /\ stakeholders' = stakeholders \cup {FreshId(stakeholders, StakeholderIds)}
        /\ stakeholder_data' = DictSet(stakeholder_data,
                FreshId(stakeholders, StakeholderIds),
                [role |-> role, primary_value_interests |-> value_interests])
        /\ response' = NoResponse
        /\ UNCHANGED <<program, tx_vars, now, s_vars, projects, metrics, measurements,
                     deliverables, project_stakeholders, project_data>>

\* lines 83-85 of StakeholderService.assign_to_project: the association table
\* after stakeholder.projects.append(project), which the call does when the
\* project is not in stakeholder.projects
assigned(links, stakeholder_id, project_id) ==
    IF <<project_id, stakeholder_id>> \in links THEN links
    ELSE links \cup {<<project_id, stakeholder_id>>}

\* lines 97-99 of StakeholderService.remove_from_project: the association
\* table after stakeholder.projects.remove(project), which the call does
\* when the project is in stakeholder.projects
removed(links, stakeholder_id, project_id) ==
    IF <<project_id, stakeholder_id>> \in links
    THEN links \ {<<project_id, stakeholder_id>>}
    ELSE links

\* StakeholderService.assign_to_project: a row <<project_id, stakeholder_id>>
\* of the association table
assign_to_project(stakeholder_id, project_id) ==
    /\ program = "api"
    /\ IF stakeholder_id \notin stakeholders \/ project_id \notin projects
       THEN /\ response' = NotFound("assign_to_project")
            /\ UNCHANGED project_stakeholders
       ELSE /\ project_stakeholders' =
                    assigned(project_stakeholders, stakeholder_id, project_id)
            /\ response' = NoResponse
    /\ UNCHANGED <<program, tx_vars, row_vars, now, s_vars, projects, metrics, measurements,
                 deliverables, stakeholders>>

\* remove_from_project answering False when there is no row to remove
remove_from_project_strict(stakeholder_id, project_id) ==
    /\ program = "api"
    /\ IF \/ stakeholder_id \notin stakeholders
          \/ project_id \notin projects
          \/ <<project_id, stakeholder_id>> \notin project_stakeholders
       THEN /\ response' = NotFound("remove_from_project")
            /\ UNCHANGED project_stakeholders
       ELSE /\ project_stakeholders' =
                    removed(project_stakeholders, stakeholder_id, project_id)
            /\ response' = NoResponse
    /\ UNCHANGED <<program, tx_vars, row_vars, now, s_vars, projects, metrics, measurements,
                 deliverables, stakeholders>>

\* StakeholderService.remove_from_project: the row of the association table
\* goes when there is one; True either way
remove_from_project(stakeholder_id, project_id) ==
    /\ program = "api"
    /\ IF stakeholder_id \notin stakeholders \/ project_id \notin projects
       THEN /\ response' = NotFound("remove_from_project")
            /\ UNCHANGED project_stakeholders
       ELSE /\ project_stakeholders' =
                    removed(project_stakeholders, stakeholder_id, project_id)
            /\ response' = NoResponse
    /\ UNCHANGED <<program, tx_vars, row_vars, now, s_vars, projects, metrics, measurements,
                 deliverables, stakeholders>>

\* ProjectService.update_project: setattr for every field of update_data
update_project(project_id, update_data) ==
    /\ program = "api"
    /\ IF project_id \notin projects
       THEN /\ response' = NotFound("update_project")
            /\ UNCHANGED project_data
       ELSE /\ project_data' = [project_data EXCEPT
                    ![project_id] = ApplyUpdate(project_data[project_id], update_data)]
            /\ response' = NoResponse
    /\ UNCHANGED <<program, tx_vars, now, s_vars, projects, metrics, measurements,
                 deliverables, stakeholders, project_stakeholders, stakeholder_data>>

\* lines 54-58 of StakeholderService.update_stakeholder: the members of
\* primary_value_interests are replaced by their values
ConvertInterests(update_data) ==
    [field \in DOMAIN update_data |->
        IF field = "primary_value_interests"
        THEN [i \in DOMAIN update_data[field] |-> update_data[field][i].value]
        ELSE update_data[field]]

\* StakeholderService.update_stakeholder
update_stakeholder(stakeholder_id, update_data) ==
    /\ program = "api"
    /\ IF stakeholder_id \notin stakeholders
       THEN /\ response' = NotFound("update_stakeholder")
            /\ UNCHANGED stakeholder_data
       ELSE /\ stakeholder_data' = [stakeholder_data EXCEPT
                    ![stakeholder_id] = ApplyUpdate(stakeholder_data[stakeholder_id],
                                                    ConvertInterests(update_data))]
            /\ response' = NoResponse
    /\ UNCHANGED <<program, tx_vars, now, s_vars, projects, metrics, measurements,
                 deliverables, stakeholders, project_stakeholders, project_data>>

\* StakeholderService.delete_stakeholder: the row goes and, with it, its rows
\* of the association table (relationship Stakeholder.projects, secondary)
delete_stakeholder(stakeholder_id) ==
    /\ program = "api"
    /\ IF stakeholder_id \notin stakeholders
       THEN /\ response' = NotFound("delete_stakeholder")
            /\ UNCHANGED <<stakeholders, stakeholder_data, project_stakeholders>>
       ELSE /\ stakeholders' = stakeholders \ {stakeholder_id}
            /\ stakeholder_data' = DictKeep(stakeholder_data,
                                            stakeholders \ {stakeholder_id})
            /\ project_stakeholders' =
                    {a \in project_stakeholders : a[2] # stakeholder_id}
            /\ response' = NoResponse
    /\ UNCHANGED <<program, tx_vars, now, s_vars, projects, metrics, measurements,
                 deliverables, project_data>>

(* ------------------- requests served side by side --------------------- *)
(* Two server processes on the one database serve a request each at the    *)
(* same time; a request is then a transaction of several steps.  A request *)
(* r is under way from its first query to its commit.                      *)

\* lines 17-28 of MeasurementService.create_measurement, up to the commit:
\* the row is added to the session and the metric is read (READ COMMITTED:
\* the row as last committed); loaded is <<>> when there is no such metric
begin_create_measurement(r, metric_id, project_id, value, notes, confidence_level) ==
    /\ program = "api"
    /\ r \notin DOMAIN measuring
    /\ measuring' = DictSet(measuring, r,
            [metric_id |-> metric_id, project_id |-> project_id, value |-> value,
             notes |-> notes, confidence_level |-> confidence_level,
             loaded |-> IF metric_id \in DOMAIN metrics
                        THEN <<metrics[metric_id].current_value>> ELSE <<>>])
    /\ response' = NoResponse
    /\ UNCHANGED <<program, now, s_vars, db_vars, users, registering>>

\* line 30 of MeasurementService.create_measurement, self.db.commit(): the
\* flush writes the metric first, UPDATE value_metrics SET current_value, and
\* only if the value assigned differs from the value loaded (the unit of
\* work writes no attribute that has its loaded value); then it inserts the
\* measurement, whose measured_at is datetime.utcnow() at that moment, t.  An
\* UPDATE waits for the commit of a request that has updated the same row,
\* so the two statements and the commit are one step here.  The foreign keys
\* are checked: without the project or the metric the commit raises and
\* stores nothing (an id that named no metric when the request read it is no
\* uuid4 of a later metric).
commit_create_measurement(r, t) ==
    /\ program = "api"
    /\ r \in DOMAIN measuring
    /\ t \in Readings
    /\ DOMAIN measurements # MeasurementIds
    /\ measuring' = DictKeep(measuring, DOMAIN measuring \ {r})
    /\ LET q == measuring[r]
       IN  IF \/ q.loaded = <<>>
              \/ q.project_id \notin projects
              \/ q.metric_id \notin DOMAIN metrics
           THEN /\ response' = [NoResponse EXCEPT !.op = "create_measurement",
                                                   !.status = "IntegrityError"]
                /\ UNCHANGED <<now, metrics, measurements>>
           ELSE /\ measurements' = DictSet(measurements,
                        FreshId(DOMAIN measurements, MeasurementIds),
                        [metric_id |-> q.metric_id, project_id |-> q.project_id,
                         value |-> q.value, measured_at |-> t,
                         notes |-> q.notes, confidence_level |-> q.confidence_level])
                /\ metrics' = IF q.loaded # <<Some(q.value)>>
                              THEN [metrics EXCEPT ![q.metric_id].current_value = Some(q.value)]
                              ELSE metrics
                /\ now' = t
                /\ response' = NoResponse
    /\ UNCHANGED <<program, s_vars, projects, deliverables, stakeholders,
                 project_stakeholders, row_vars, users, registering>>

\* AuthService.get_user_by_email and get_user_by_username: the ids of the
\* rows the query finds
get_user_by_email(email) == {u \in DOMAIN users : users[u].email = email}
get_user_by_username(username) == {u \in DOMAIN users : users[u].username = username}

\* the answer of register
Registered(status, line) ==
    [NoResponse EXCEPT !.op = "register", !.status = status, !.line = line]

\* lines 24-29 of register: the query by email; HTTP 400 when it finds a row
register_email(r, email, username) ==
    /\ program = "api"
    /\ r \notin DOMAIN registering
    /\ IF get_user_by_email(email) # {}
       THEN /\ response' = Registered("400", 25)
            /\ UNCHANGED registering
       ELSE /\ registering' = DictSet(registering, r,
                    [email |-> email, username |-> username, checked |-> "email"])
            /\ response' = NoResponse
    /\ UNCHANGED <<program, now, s_vars, db_vars, users, measuring>>

\* lines 31-35 of register: the query by username; HTTP 400 when it finds a
\* row
register_username(r) ==
    /\ program = "api"
    /\ r \in DOMAIN registering
    /\ registering[r].checked = "email"
    /\ IF get_user_by_username(registering[r].username) # {}
       THEN /\ response' = Registered("400", 31)
            /\ registering' = DictKeep(registering, DOMAIN registering \ {r})
       ELSE /\ registering' = [registering EXCEPT ![r].checked = "username"]
            /\ response' = NoResponse
    /\ UNCHANGED <<program, now, s_vars, db_vars, users, measuring>>

\* line 37 of register, AuthService.create_user: the INSERT and the commit.
\* email and username are unique columns: the database refuses a row that
\* repeats either, the commit raises IntegrityError, which nothing catches
create_user(r) ==
    /\ program = "api"
    /\ r \in DOMAIN registering
    /\ registering[r].checked = "username"
    /\ DOMAIN users # UserIds
    /\ registering' = DictKeep(registering, DOMAIN registering \ {r})
    /\ IF \/ get_user_by_email(registering[r].email) # {}
          \/ get_user_by_username(registering[r].username) # {}
       THEN /\ response' = Registered("IntegrityError", 72)
            /\ UNCHANGED users
       ELSE /\ users' = DictSet(users, FreshId(DOMAIN users, UserIds),
                    [email |-> registering[r].email,
                     username |-> registering[r].username])
            /\ response' = Registered("created", 0)
    /\ UNCHANGED <<program, now, s_vars, db_vars, measuring>>

(* --------------------------- specification ---------------------------- *)
Init ==
    /\ program \in {"api", "script"}
    /\ now = 0
    /\ s_metrics = <<>>
    /\ s_measurements = <<>>
    /\ s_deliverables = EmptyDict
    /\ projects = {}
    /\ metrics = EmptyDict
    /\ measurements = EmptyDict
    /\ deliverables = EmptyDict
    /\ stakeholders = {}
    /\ project_data = EmptyDict
    /\ stakeholder_data = EmptyDict
    /\ project_stakeholders = {}
    /\ users = EmptyDict
    /\ measuring = EmptyDict
    /\ registering = EmptyDict
    /\ response = NoResponse

\* how many measurements the store holds
Measured ==
    IF program = "script" THEN Len(s_measurements)
    ELSE Cardinality(DOMAIN measurements)

\* the dashboards: metrics over the whole grid of types, targets and
\* baselines, all of them active; at most MaxRows rows, MaxMetrics metrics
\* and MaxMeasurements measurements
Next ==
    \/ \E name \in MetricNames, ty \in MetricType, t \in Values, b \in Baselines :
            /\ Rows < MaxRows /\ Len(s_metrics) < MaxMetrics
            /\ add_metric(name, ty, t, b, TRUE)
    \/ \E id \in MetricIds, v \in Values, t \in Readings :
            /\ Rows < MaxRows /\ Measured < MaxMeasurements
            /\ record_measurement(id, v, t)
    \/ \E st \in DeliverableStatus : Rows < MaxRows /\ s_add_deliverable(st)
    \/ s_dashboard
    \/ Rows < MaxRows /\ create_project("infrastructure", "planning", TRUE)
    \/ \E p \in ProjectIds, name \in MetricNames, ty \in MetricType,
          t \in Values, b \in Baselines :
            /\ Rows < MaxRows
            /\ create_metric(p, name, ty, t, b, None, TRUE)
    \/ \E m \in MetricIds, p \in ProjectIds, v \in Values, t \in Readings :
            /\ Rows < MaxRows /\ Measured < MaxMeasurements
            /\ create_measurement(m, p, v, None, Float(1), t)
    \/ \E p \in ProjectIds, st \in DeliverableStatus :
            Rows < MaxRows /\ insert_deliverable(p, st)
    \/ \E p \in ProjectIds : dashboard(p)

Spec == Init /\ [][Next]_vars

\* the portfolio overview: active and inactive metrics, one target (the
\* overview reads no target); the same limits
PortfolioNext ==
    \/ \E name \in MetricNames, ty \in MetricType, b \in Baselines, a \in BOOLEAN :
            /\ Rows < MaxRows /\ Len(s_metrics) < MaxMetrics
            /\ add_metric(name, ty, MaxValue, b, a)
    \/ \E id \in MetricIds, v \in Values, t \in Readings :
            /\ Rows < MaxRows /\ Measured < MaxMeasurements
            /\ record_measurement(id, v, t)
    \/ s_portfolio
    \/ Rows < MaxRows /\ create_project("infrastructure", "planning", TRUE)
    \/ \E p \in ProjectIds, name \in MetricNames, ty \in MetricType,
          b \in Baselines, a \in BOOLEAN :
            /\ Rows < MaxRows
            /\ create_metric(p, name, ty, MaxValue, b, None, a)
    \/ \E m \in MetricIds, p \in ProjectIds, v \in Values, t \in Readings :
            /\ Rows < MaxRows /\ Measured < MaxMeasurements
            /\ create_measurement(m, p, v, None, Float(1), t)
    \/ portfolio

SpecPortfolio == Init /\ [][PortfolioNext]_vars

\* the recent measurements: metrics of one type, target and baseline, and
\* measurements of one value; up to MaxRecent measurements in the script,
\* MaxMeasurements in the api (whose dashboard lists none, see C18)
RecentNext ==
    \/ \E name \in MetricNames :
            /\ Rows < MaxRecentRows /\ Len(s_metrics) < MaxMetrics
            /\ add_metric(name, "time", MaxValue, 0, TRUE)
    \/ \E id \in MetricIds, t \in Readings :
            /\ Rows < MaxRecentRows /\ Measured < MaxRecent
            /\ record_measurement(id, MaxValue, t)
    \/ s_dashboard
    \/ Rows < MaxRecentRows /\ create_project("infrastructure", "planning", TRUE)
    \/ \E p \in ProjectIds, name \in MetricNames :
            /\ Rows < MaxRecentRows
            /\ create_metric(p, name, "time", MaxValue, 0, None, TRUE)
    \/ \E m \in MetricIds, p \in ProjectIds, t \in Readings :
            /\ Rows < MaxRecentRows /\ Measured < MaxMeasurements
            /\ create_measurement(m, p, MaxValue, None, Float(1), t)
    \/ \E p \in ProjectIds : dashboard(p)

SpecRecent == Init /\ [][RecentNext]_vars

\* the store under every writing operation of the api: metrics of one type
\* and baseline, with and without a current_value of the client's; at most
\* MaxStoreRows rows and MaxMeasurements measurements at a time, and
\* timestamps up to MaxClock
MetricUpdates ==
    {[current_value |-> Some(MaxValue)], [is_active |-> TRUE]}

StoreNext ==
    \/ Rows < MaxStoreRows /\ create_project("infrastructure", "planning", TRUE)
    \/ \E p \in ProjectIds, c \in {None, Some(1)} :
            /\ Rows < MaxStoreRows
            /\ create_metric(p, "a", "currency", MaxValue, 0, c, TRUE)
    \/ \E m \in MetricIds, u \in MetricUpdates : update_metric(m, u)
    \/ \E m \in MetricIds : delete_metric(m)
    \/ \E m \in MetricIds, p \in ProjectIds, v \in {1, MaxValue},
          n \in {None}, t \in Readings :
            /\ Rows < MaxStoreRows /\ Measured < MaxMeasurements
            /\ t <= MaxClock
            /\ create_measurement(m, p, v, n, Float(1), t)
    \/ \E i \in MeasurementIds : delete_measurement(i)
    \/ \E p \in ProjectIds, st \in {"planned"} :
            Rows < MaxStoreRows /\ insert_deliverable(p, st)
    \/ \E p \in ProjectIds : delete_project(p)
    \/ Rows < MaxStoreRows /\ create_stakeholder(None, <<>>)
    \/ \E k \in StakeholderIds, p \in ProjectIds : assign_to_project(k, p)
    \/ \E p \in ProjectIds : dashboard(p)
    \/ portfolio

SpecStore == Init /\ [][StoreNext]_vars

\* two projects side by side under the operations that write and read a
\* project's rows: the limits of SpecStore, metrics created without a
\* current_value, no stakeholders
MixedNext ==
    \/ Rows < MaxStoreRows /\ create_project("infrastructure", "planning", TRUE)
    \/ \E p \in ProjectIds :
            /\ Rows < MaxStoreRows
            /\ create_metric(p, "a", "currency", MaxValue, 0, None, TRUE)
    \/ \E m \in MetricIds : delete_metric(m)
    \/ \E m \in MetricIds, p \in ProjectIds, v \in {1, MaxValue}, t \in Readings :
            /\ Rows < MaxStoreRows /\ Measured < MaxMeasurements
            /\ t <= MaxClock
            /\ create_measurement(m, p, v, None, Float(1), t)
    \/ \E i \in MeasurementIds : delete_measurement(i)
    \/ \E p \in ProjectIds :
            Rows < MaxStoreRows /\ insert_deliverable(p, "planned")
    \/ \E p \in ProjectIds : dashboard(p)

SpecMixed == Init /\ [][MixedNext]_vars

\* create_measurement requests of two server processes, side by side, for
\* metrics created without a current_value: up to MaxRequests requests under
\* way, MaxRaceMeasurements measurements, timestamps up to MaxRaceClock
RaceNext ==
    \/ Rows < MaxStoreRows /\ create_project("infrastructure", "planning", TRUE)
    \/ \E p \in ProjectIds :
            /\ Rows < MaxStoreRows
            /\ create_metric(p, "a", "currency", MaxValue, 0, None, TRUE)
    \/ \E r \in RequestIds, m \in MetricIds, p \in ProjectIds, v \in {1, MaxValue} :
            begin_create_measurement(r, m, p, v, None, Float(1))
    \/ \E r \in RequestIds, t \in Readings :
            /\ Rows < MaxStoreRows /\ Measured < MaxRaceMeasurements
            /\ t <= MaxRaceClock
            /\ commit_create_measurement(r, t)

SpecRace == Init /\ [][RaceNext]_vars

\* the types of project a template is predefined for
TemplateTypes == {"infrastructure", "software_development", "digital_transformation"}

\* the fields a request to update a project or a stakeholder sets
ProjectUpdates == {[status |-> "active"]}
StakeholderUpdates ==
    {[role |-> Some("sponsor")],
     [primary_value_interests |-> <<Member("ValueCategory", "cost_reduction")>>]}

\* every operation that takes an id, on ids that exist and on ids that do
\* not; projects of the three types, with and without template
AdminNext ==
    \/ \E ty \in TemplateTypes, use_template \in BOOLEAN :
            /\ Rows < MaxAdminRows
            /\ create_project(ty, "planning", use_template)
    \/ \E p \in ProjectIds, u \in ProjectUpdates : update_project(p, u)
    \/ \E p \in ProjectIds : delete_project(p)
    \/ \E p \in ProjectIds : dashboard(p)
    \/ \E p \in ProjectIds :
            /\ Rows < MaxAdminRows
            /\ create_metric(p, "a", "currency", MaxValue, 0, None, TRUE)
    \/ \E m \in MetricIds, u \in MetricUpdates : update_metric(m, u)
    \/ \E m \in MetricIds : delete_metric(m)
    \/ \E m \in MetricIds, p \in ProjectIds, t \in Readings :
            /\ Rows < MaxAdminRows /\ Measured < MaxAdminMeasurements
            /\ t <= MaxAdminClock
            /\ create_measurement(m, p, 1, None, Float(1), t)
    \/ \E i \in MeasurementIds : delete_measurement(i)
    \/ Rows < MaxAdminRows /\ create_stakeholder(None, <<>>)
    \/ \E k \in StakeholderIds, u \in StakeholderUpdates : update_stakeholder(k, u)
    \/ \E k \in StakeholderIds : delete_stakeholder(k)
    \/ \E k \in StakeholderIds, p \in ProjectIds : assign_to_project(k, p)
    \/ \E k \in StakeholderIds, p \in ProjectIds : remove_from_project(k, p)

SpecAdmin == Init /\ [][AdminNext]_vars

\* registrations, up to MaxRequests of them under way at a time
RegisterNext ==
    \/ \E r \in RequestIds, email \in Emails, username \in Usernames :
            register_email(r, email, username)
    \/ \E r \in RequestIds : register_username(r)
    \/ \E r \in RequestIds : create_user(r)

SpecRegister == Init /\ [][RegisterNext]_vars

(* ============================ properties ============================== *)
(* The formulas below read response together with the store.  Every write  *)
(* resets response, so a response is always about the store as it is.      *)

\* a row of value_metrics in the shape of the script's ValueMetric
MetricRow(m) ==
    [id |-> m, name |-> metrics[m].name, metric_type |-> metrics[m].metric_type,
     target_value |-> metrics[m].target_value,
     baseline_value |-> metrics[m].baseline_value,
     is_active |-> metrics[m].is_active]

\* response is that of a dashboard
IsDashboard == response.op \in {"get_value_dashboard", "get_project_dashboard"}

\* a dashboard was asked for, of a project that exists
DashboardAsked ==
    /\ IsDashboard
    /\ program = "api" => response.project_id \in projects

\* the metrics of the project the dashboard was asked for
MetricsAsked ==
    IF program = "script" THEN {s_metrics[i] : i \in DOMAIN s_metrics}
    ELSE {MetricRow(m) : m \in ProjectMetrics(response.project_id)}

\* the measurements of a metric
MeasurementsOf(id) ==
    IF program = "script"
    THEN {[value |-> s_measurements[i].value,
           measured_at |-> s_measurements[i].measured_at] :
            i \in {j \in DOMAIN s_measurements : s_measurements[j].metric_id = id}}
    ELSE {[value |-> measurements[i].value,
           measured_at |-> measurements[i].measured_at] :
            i \in {j \in DOMAIN measurements : measurements[j].metric_id = id}}

\* the values a metric's current value can be: those of its measurements
\* that no other of its measurements is later than
LatestValues(id) ==
    {x.value : x \in {y \in MeasurementsOf(id) :
                        \A z \in MeasurementsOf(id) : z.measured_at <= y.measured_at}}

\* no other metric of the project bears the metric's name (the summaries
\* are keyed by name, so only then is an entry that of one metric)
UniqueName(metric) ==
    \A other \in MetricsAsked : other.name = metric.name => other.id = metric.id

\* the float p is (current - baseline) / (target - baseline) * 100 clamped
\* to [0, 100], for target # baseline
IsClampedRatio(p, current, baseline, target) ==
    LET sign == IF target > baseline THEN 1 ELSE -1
        num == sign * (current - baseline) * 100
        den == sign * (target - baseline)
    IN  IF num <= 0 THEN p = <<0, 1>>
        ELSE IF num >= 100 * den THEN p = <<100, 1>>
        ELSE p[2] > 0 /\ p[1] * den = num * p[2]

\* the metric is one that roi_summary is to hold an entry for
Contributes(metric) ==
    /\ LatestValues(metric.id) # {}
    /\ \/ metric.metric_type = "currency"
       \/ metric.metric_type = "percentage" /\ metric.baseline_value > 0

\* C1: every progress_percent a dashboard puts into metrics_summary, of
\* either program, lies in [0, 100].  (ProjectService.get_project_dashboard
\* raises before it returns its summary: the formula reads the entries it
\* has built.)
C1_ProgressInRange ==
    IsDashboard =>
        \A n \in DOMAIN response.metrics_summary :
            LET p == response.metrics_summary[n].progress_percent
            IN  p[2] > 0 /\ 0 <= p[1] /\ p[1] <= 100 * p[2]

\* C1 happens: a dashboard was returned with progress 100 for a metric whose
\* current value overshoots its target
C1_Overshoot ==
    /\ program = "script"
    /\ DashboardAsked
    /\ response.status = "ok"
    /\ \E metric \in MetricsAsked :
        /\ UniqueName(metric)
        /\ metric.baseline_value < metric.target_value
        /\ \E c \in LatestValues(metric.id) : c > metric.target_value
        /\ response.metrics_summary[metric.name].progress_percent = <<100, 1>>

\* C2: whenever a dashboard is asked for, it reports for every active metric
\* with a current value and target # baseline the progress_percent
\* (current - baseline) / (target - baseline) * 100 clamped to [0, 100]
C2_ProgressFormula ==
    DashboardAsked =>
        \A metric \in MetricsAsked :
            /\ metric.is_active
            /\ UniqueName(metric)
            /\ LatestValues(metric.id) # {}
            /\ metric.target_value # metric.baseline_value
            => /\ response.status = "ok"
               /\ metric.name \in DOMAIN response.metrics_summary
               /\ \E c \in LatestValues(metric.id) :
                    /\ response.metrics_summary[metric.name].current = Some(c)
                    /\ IsClampedRatio(
                            response.metrics_summary[metric.name].progress_percent,
                            c, metric.baseline_value, metric.target_value)

\* C2 as far as it holds: Project.get_value_dashboard reports that progress
C2_InMemory == program = "script" => C2_ProgressFormula

\* C3: whenever a dashboard is asked for, it reports progress_percent 0 and
\* no current value for every active metric without a measurement
C3_NoMeasurement ==
    DashboardAsked =>
        \A metric \in MetricsAsked :
            /\ metric.is_active
            /\ UniqueName(metric)
            /\ MeasurementsOf(metric.id) = {}
            => /\ response.status = "ok"
               /\ metric.name \in DOMAIN response.metrics_summary
               /\ response.metrics_summary[metric.name].current = None
               /\ response.metrics_summary[metric.name].progress_percent = <<0, 1>>

\* C3 as far as it holds: Project.get_value_dashboard reports that entry
C3_InMemory == program = "script" => C3_NoMeasurement

\* C4: no call divides by zero, and whenever a dashboard is asked for, it
\* reports progress_percent 0 for every active metric whose target equals
\* its baseline
C4_TargetEqualsBaseline ==
    /\ response.status # "ZeroDivisionError"
    /\ DashboardAsked =>
        \A metric \in MetricsAsked :
            /\ metric.is_active
            /\ UniqueName(metric)
            /\ metric.target_value = metric.baseline_value
            => /\ response.status = "ok"
               /\ metric.name \in DOMAIN response.metrics_summary
               /\ response.metrics_summary[metric.name].progress_percent = <<0, 1>>

\* C4 as far as it holds: Project.get_value_dashboard reports that progress
C4_InMemory == program = "script" => C4_TargetEqualsBaseline

\* C5: whenever a dashboard is asked for, roi_summary holds for every active
\* currency metric with a current value exactly that value
C5_CurrencyIdentity ==
    DashboardAsked =>
        \A metric \in MetricsAsked :
            /\ metric.is_active
            /\ UniqueName(metric)
            /\ metric.metric_type = "currency"
            /\ LatestValues(metric.id) # {}
            => /\ response.status = "ok"
               /\ metric.name \in DOMAIN response.roi_summary
               /\ \E c \in LatestValues(metric.id) :
                    /\ response.metrics_summary[metric.name].current = Some(c)
                    /\ response.roi_summary[metric.name] = <<c, 1>>

\* C5 as far as it holds: Project.calculate_roi gives that entry
C5_InMemory == program = "script" => C5_CurrencyIdentity

\* C6: whenever a dashboard is asked for, roi_summary holds for every active
\* percentage metric with a current value and baseline > 0 the float
\* (current - baseline) / baseline
C6_PercentageImprovement ==
    DashboardAsked =>
        \A metric \in MetricsAsked :
            /\ metric.is_active
            /\ UniqueName(metric)
            /\ metric.metric_type = "percentage"
            /\ metric.baseline_value > 0
            /\ LatestValues(metric.id) # {}
            => /\ response.status = "ok"
               /\ metric.name \in DOMAIN response.roi_summary
               /\ \E c \in LatestValues(metric.id) :
                    LET roi == response.roi_summary[metric.name]
                    IN  /\ response.metrics_summary[metric.name].current = Some(c)
                        /\ roi[2] > 0
                        /\ roi[1] * metric.baseline_value
                                = (c - metric.baseline_value) * roi[2]

\* C6 as far as it holds: Project.calculate_roi gives that entry
C6_InMemory == program = "script" => C6_PercentageImprovement

\* C7: no call divides by zero, and the roi_summary of a dashboard has no
\* entry for a percentage metric with baseline 0: an entry under its name is
\* that of another metric of the same name
C7_PercentageBaselineZero ==
    /\ response.status # "ZeroDivisionError"
    /\ IsDashboard =>
        \A metric \in MetricsAsked :
            /\ metric.metric_type = "percentage"
            /\ metric.baseline_value = 0
            /\ metric.name \in DOMAIN response.roi_summary
            => \E other \in MetricsAsked :
                /\ other.id # metric.id
                /\ other.name = metric.name
                /\ Contributes(other)

\* C7 happens: a dashboard was returned for a percentage metric with
\* baseline 0 and a current value, and roi_summary has no entry for it
C7_BaselineZeroMeasured ==
    /\ program = "script"
    /\ DashboardAsked
    /\ response.status = "ok"
    /\ \E metric \in MetricsAsked :
        /\ metric.metric_type = "percentage"
        /\ metric.baseline_value = 0
        /\ response.metrics_summary[metric.name].current # None
        /\ LatestValues(metric.id) # {}
        /\ metric.name \notin DOMAIN response.roi_summary

\* C8: every key of the roi_summary of a dashboard is the name of a currency
\* metric, or of a percentage metric with baseline > 0, that has a current
\* value
C8_RoiKeys ==
    IsDashboard =>
        \A n \in DOMAIN response.roi_summary :
            \E metric \in MetricsAsked : metric.name = n /\ Contributes(metric)

\* C8 happens: a dashboard was returned for a metric of type time, count or
\* score with a current value, and for a metric without a current value,
\* and roi_summary has an entry for neither
C8_NoEntry ==
    /\ program = "script"
    /\ DashboardAsked
    /\ response.status = "ok"
    /\ \E metric, other \in MetricsAsked :
        /\ metric.metric_type \in {"time", "count", "score"}
        /\ LatestValues(metric.id) # {}
        /\ response.metrics_summary[metric.name].current # None
        /\ metric.name \notin DOMAIN response.roi_summary
        /\ other.metric_type = "currency"
        /\ MeasurementsOf(other.id) = {}
        /\ other.name \notin DOMAIN response.roi_summary

\* the deliverables of the project the dashboard was asked for, id -> status
DeliverablesAsked ==
    IF program = "script" THEN s_deliverables
    ELSE [d \in {x \in DOMAIN deliverables :
                    deliverables[x].project_id = response.project_id}
            |-> deliverables[d].status]

\* C10: whenever a dashboard is asked for, its deliverables_status has one
\* entry per status that a deliverable of the project has, the number of the
\* project's deliverables with that status
C10_DeliverablesTally ==
    DashboardAsked =>
        /\ response.status = "ok"
        /\ DOMAIN response.deliverables_status
                = {DeliverablesAsked[d] : d \in DOMAIN DeliverablesAsked}
        /\ \A st \in DOMAIN response.deliverables_status :
                response.deliverables_status[st]
                    = Cardinality({d \in DOMAIN DeliverablesAsked :
                                        DeliverablesAsked[d] = st})

\* C10 as far as it holds: Project.get_value_dashboard tallies so
C10_InMemory == program = "script" => C10_DeliverablesTally

\* C10 as far as it holds: the tally ProjectService.get_project_dashboard
\* has built when it raises at line 144 is that of the project
C10_ServiceTally ==
    /\ program = "api"
    /\ DashboardAsked
    /\ response.line = 144
    => /\ DOMAIN response.deliverables_status
                = {DeliverablesAsked[d] : d \in DOMAIN DeliverablesAsked}
       /\ \A st \in DOMAIN response.deliverables_status :
                response.deliverables_status[st]
                    = Cardinality({d \in DOMAIN DeliverablesAsked :
                                        DeliverablesAsked[d] = st})

\* the projects an overview is to list, and the metrics of each
PortfolioProjects == IF program = "script" THEN {0} ELSE projects

MetricsOfProject(p) ==
    IF program = "script" THEN {s_metrics[i] : i \in DOMAIN s_metrics}
    ELSE {MetricRow(m) : m \in ProjectMetrics(p)}

\* roi_contribution of a metric that contributes, with current value c
RoiContribution(metric, c) ==
    IF metric.metric_type = "currency" THEN Float(c)
    ELSE Rat(c - metric.baseline_value, metric.baseline_value)

RECURSIVE SumOfContributions(_, _)
SumOfContributions(ms, current) ==
    IF ms = {} THEN Float(0)
    ELSE LET m == CHOOSE x \in ms : TRUE
         IN  RatAdd(RoiContribution(m, current[m.id]),
                    SumOfContributions(ms \ {m}, current))

\* what portfolio_roi of project p can be: the sum of roi_contribution over
\* its active metrics that contribute, each with one of its latest values
PortfolioRoi(p) ==
    LET ms == {m \in MetricsOfProject(p) : m.is_active /\ Contributes(m)}
        ids == {m.id : m \in ms}
    IN  {SumOfContributions(ms, current) :
            current \in {f \in [ids -> UNION {LatestValues(i) : i \in ids}] :
                            \A i \in ids : f[i] \in LatestValues(i)}}

\* C9: whenever an overview is asked for, it reports for every project the
\* sum of roi_contribution over the project's active metrics with a current
\* value (0 when none contributes)
C9_PortfolioRoi ==
    response.op = "get_portfolio_overview" =>
        /\ response.status = "ok"
        /\ \A p \in PortfolioProjects :
            /\ p \in DOMAIN response.current_roi
            /\ response.current_roi[p] \in PortfolioRoi(p)

\* C9 for ValueProjectManager.get_portfolio_overview alone
C9_InMemory == program = "script" => C9_PortfolioRoi

\* C9 as far as it holds: ValueProjectManager.get_portfolio_overview reports
\* that sum for a project whose metrics are all active and bear different
\* names
C9_InMemoryActiveUnique ==
    /\ program = "script"
    /\ \A m \in MetricsOfProject(0) :
        /\ m.is_active
        /\ \A o \in MetricsOfProject(0) : o.name = m.name => o.id = m.id
    => C9_PortfolioRoi

\* the measurements of the project the dashboard was asked for: indices of
\* Project.measurements, ids of rows of table measurements
MeasurementsAsked ==
    IF program = "script" THEN DOMAIN s_measurements
    ELSE {i \in DOMAIN measurements :
            measurements[i].project_id = response.project_id}

MeasuredAt(h) ==
    IF program = "script" THEN s_measurements[h].measured_at
    ELSE measurements[h].measured_at

\* the entry of recent_measurements that lists measurement h
RecentEntry(h) ==
    IF program = "script"
    THEN [metric |-> (CHOOSE m \in MetricsAsked :
                        m.id = s_measurements[h].metric_id).name,
          value |-> s_measurements[h].value,
          date |-> Date(s_measurements[h].measured_at)]
    ELSE [metric |-> metrics[measurements[h].metric_id].name,
          value |-> measurements[h].value,
          date |-> Date(measurements[h].measured_at)]

\* recent_measurements lists min(5, number of measurements) measurements of
\* the project, none earlier than one it leaves out, each in(before(t1, t2))
\* order with the next
ListsLatest(before(_, _)) ==
    LET n == Cardinality(MeasurementsAsked)
        k == IF n < 5 THEN n ELSE 5
    IN  /\ Len(response.recent_measurements) = k
        /\ \E q \in [1 .. k -> MeasurementsAsked] :
            /\ \A i, j \in 1 .. k : i < j =>
                    /\ q[i] # q[j]
                    /\ before(MeasuredAt(q[j]), MeasuredAt(q[i]))
            /\ \A h \in MeasurementsAsked :
                    (\A i \in 1 .. k : q[i] # h) =>
                        \A i \in 1 .. k : MeasuredAt(h) <= MeasuredAt(q[i])
            /\ \A i \in 1 .. k : response.recent_measurements[i] = RecentEntry(q[i])

\* C11: whenever a dashboard is asked for, its recent_measurements lists the
\* min(5, n) latest of the project's n measurements, in strictly descending
\* order of their timestamps
C11_RecentMeasurements ==
    DashboardAsked =>
        /\ response.status = "ok"
        /\ ListsLatest(LAMBDA t1, t2 : t1 < t2)

\* C11 as far as it holds: Project.get_value_dashboard lists the min(5, n)
\* latest measurements in descending order of their timestamps, measurements
\* of one timestamp in any order
C11_InMemory ==
    program = "script" /\ DashboardAsked =>
        /\ response.status = "ok"
        /\ ListsLatest(LAMBDA t1, t2 : t1 <= t2)

\* C11 for Project.get_value_dashboard alone: fails when two measurements
\* bear one timestamp
C11_InMemoryStrict == program = "script" => C11_RecentMeasurements


(* ------------- the stored current_value and the measurements ----------- *)
\* C12: every metric with a measurement has, as its stored current_value,
\* the value of a measurement of its with the greatest measured_at
C12_CurrentValueIsLatest ==
    program = "api" =>
        \A m \in DOMAIN metrics :
            LatestRows(m) # {0} =>
                \E i \in LatestRows(m) :
                    metrics[m].current_value = Some(measurements[i].value)

\* C12 where it holds: right after create_measurement, for the metric measured
C12_AfterCreateMeasurement ==
    [][\A i \in DOMAIN measurements' \ DOMAIN measurements :
         /\ \A j \in DOMAIN measurements' :
                measurements'[j].metric_id = measurements'[i].metric_id
                    => measurements'[j].measured_at <= measurements'[i].measured_at
         /\ metrics'[measurements'[i].metric_id].current_value
                = Some(measurements'[i].value)]_vars

\* C13: a metric of which no measurement is stored has no stored
\* current_value
C13_NoMeasurementNoCurrentValue ==
    program = "api" =>
        \A m \in DOMAIN metrics :
            LatestRows(m) = {0} => IsNone(metrics[m].current_value)

(* ----------------------- measurements are immutable -------------------- *)
\* C14: no step changes a stored measurement: its metric, project, value,
\* timestamp, confidence and note are after the step what they were before
\* it, or the measurement is gone
C14_MeasurementsImmutable ==
    [][\A i \in DOMAIN measurements :
            i \in DOMAIN measurements' => measurements'[i] = measurements[i]]_vars

\* two measurements of a metric with different values, of which the later
\* was recorded, and the metric deleted, with the earlier in the store
C14_SurvivedOperations ==
    /\ program = "api"
    /\ \E i, j \in DOMAIN measurements :
        /\ measurements[i].metric_id = measurements[j].metric_id
        /\ measurements[i].value # measurements[j].value
        /\ measurements[i].measured_at < measurements[j].measured_at
        /\ ~metrics[measurements[i].metric_id].is_active

(* --------------------- measurements and their metrics ------------------ *)
\* C16: every stored measurement refers to a stored metric, and that metric
\* is of the project the measurement's project_id names
C16_MeasurementOfOwnProject ==
    program = "api" =>
        \A i \in DOMAIN measurements :
            /\ measurements[i].metric_id \in DOMAIN metrics
            /\ metrics[measurements[i].metric_id].project_id
                    = measurements[i].project_id

\* the half of C16 the foreign keys and the cascades keep: the metric and
\* the project of every stored measurement exist
C16_MetricAndProjectExist ==
    program = "api" =>
        \A i \in DOMAIN measurements :
            /\ measurements[i].metric_id \in DOMAIN metrics
            /\ measurements[i].project_id \in projects

(* ---------------------------- delete_project --------------------------- *)
\* the step deleted project p: none of its metrics, measurements and
\* deliverables is left
NothingLeftOf(p) ==
    /\ \A m \in DOMAIN metrics' : metrics'[m].project_id # p
    /\ \A i \in DOMAIN measurements' : measurements'[i].project_id # p
    /\ \A d \in DOMAIN deliverables' : deliverables'[d].project_id # p

\* the step deleted project p: its stakeholders are still there
StakeholdersKept(p) ==
    \A k \in stakeholders : <<p, k>> \in project_stakeholders => k \in stakeholders'

\* the step deleted project p: the rows of the other projects are as before
OthersUntouched(p) ==
    /\ \A m \in DOMAIN metrics :
            metrics[m].project_id # p
                => m \in DOMAIN metrics' /\ metrics'[m] = metrics[m]
    /\ \A i \in DOMAIN measurements :
            measurements[i].project_id # p
                => i \in DOMAIN measurements' /\ measurements'[i] = measurements[i]
    /\ \A d \in DOMAIN deliverables :
            deliverables[d].project_id # p
                => d \in DOMAIN deliverables' /\ deliverables'[d] = deliverables[d]

\* C15: a step that deletes a project leaves none of its metrics,
\* measurements and deliverables, keeps every stakeholder assigned to it,
\* and leaves the metrics, measurements and deliverables of the other
\* projects as they were
C15_DeleteProject ==
    [][\A p \in projects \ projects' :
            NothingLeftOf(p) /\ StakeholdersKept(p) /\ OthersUntouched(p)]_vars

\* C15 for a store in which every measurement is of a metric of its own
\* project
C15_OwnMeasurements ==
    [][C16_MeasurementOfOwnProject =>
        \A p \in projects \ projects' :
            NothingLeftOf(p) /\ StakeholdersKept(p) /\ OthersUntouched(p)]_vars

\* what C15 has right under any store: nothing of the project is left and
\* its stakeholders are kept
C15_ProjectGone ==
    [][\A p \in projects \ projects' :
            NothingLeftOf(p) /\ StakeholdersKept(p)]_vars

(* ------------------------- the reads are reads ------------------------- *)
\* C17: a step that computes a project's dashboard or the portfolio overview
\* leaves every table of the store as it was, the stored current_value of
\* every metric included
C17_ReadOnly ==
    [][response'.op \in {"get_project_dashboard", "get_portfolio_overview"}
            => UNCHANGED db_vars]_vars

\* a dashboard was computed of a project with an active metric that has a
\* stored current_value and no measurement: line 108 assigned None to it, and
\* the row has its current_value still
C17_AssignedNotStored ==
    /\ program = "api"
    /\ response.op = "get_project_dashboard"
    /\ response.project_id \in projects
    /\ \E m \in ProjectMetrics(response.project_id) :
        /\ metrics[m].is_active
        /\ ~IsNone(metrics[m].current_value)
        /\ LatestRows(m) = {0}

(* ---------------------- the dashboard is returned ---------------------- *)
\* C18: whenever the dashboard of an existing project is asked for, a
\* dashboard is returned and no error is raised
C18_DashboardReturned == DashboardAsked => response.status = "ok"

\* C18 as far as it holds: Project.get_value_dashboard returns a dashboard
C18_InMemory == program = "script" => C18_DashboardReturned

(* -------------------------- create_measurement ------------------------- *)
\* C20: a step that stores a new measurement stores exactly one; the stored
\* current_value of its metric is its value after the step, and the stored
\* current_value of every other metric is what it was
C20_CreateMeasurement ==
    [][LET new == DOMAIN measurements' \ DOMAIN measurements
       IN  new # {} =>
            /\ Cardinality(new) = 1
            /\ DOMAIN measurements \subseteq DOMAIN measurements'
            /\ DOMAIN metrics' = DOMAIN metrics
            /\ \A i \in new :
                /\ metrics'[measurements'[i].metric_id].current_value
                        = Some(measurements'[i].value)
                /\ \A m \in DOMAIN metrics \ {measurements'[i].metric_id} :
                        metrics'[m].current_value = metrics[m].current_value]_vars

\* two metrics, each with one measurement, of different values, the second
\* recorded later: each metric has the value of its own as current_value
C20_TwoMetricsMeasured ==
    /\ program = "api"
    /\ \E i, j \in DOMAIN measurements :
        /\ measurements[i].metric_id # measurements[j].metric_id
        /\ measurements[i].value # measurements[j].value
        /\ measurements[i].measured_at < measurements[j].measured_at
        /\ metrics[measurements[i].metric_id].current_value
                = Some(measurements[i].value)
        /\ metrics[measurements[j].metric_id].current_value
                = Some(measurements[j].value)

(* ------------------ dashboards of different projects ------------------- *)
\* the rows a request addressed to project a reads or writes: the project,
\* its metrics, its deliverables, and the measurements that name it or are
\* of one of its metrics
RowsOf(a) ==
    [project |-> a \in projects,
     metrics |-> DictKeep(metrics, {m \in DOMAIN metrics : metrics[m].project_id = a}),
     measurements |-> DictKeep(measurements,
        {i \in DOMAIN measurements :
            \/ measurements[i].project_id = a
            \/ /\ measurements[i].metric_id \in DOMAIN metrics
               /\ metrics[measurements[i].metric_id].project_id = a}),
     deliverables |-> DictKeep(deliverables,
        {d \in DOMAIN deliverables : deliverables[d].project_id = a})]

\* what ProjectService.get_project_dashboard reads of the store when asked
\* for project a: the project (line 85), its metrics (line 98), the latest
\* measurements of each (lines 103-105), the project's recent measurements
\* (lines 89-92) and the tally of its deliverables (lines 131-138)
Reads(a) ==
    [project |-> a \in projects,
     metrics |-> [m \in ProjectMetrics(a) |-> metrics[m]],
     latest |-> [m \in ProjectMetrics(a) |->
                    [i \in LatestRows(m) \ {0} |-> measurements[i]]],
     recent |-> {[k \in DOMAIN recent |-> <<recent[k], measurements[recent[k]]>>] :
                    recent \in RecentQueries(a)},
     deliverables |-> deliverables_status_query(a)]

\* what GET /projects/a/dashboard may answer in the state: the value of
\* get_project_dashboard for every way the database may resolve the queries
DashboardsOf(a) ==
    UNION {UNION {{get_project_dashboard(a, order, first, recent) :
                        recent \in RecentQueries(a)} :
                  first \in Firsts(ProjectMetrics(a))} :
           order \in Orders(ProjectMetrics(a))}

C19_SameAnswers ==
    [][\A a \in ProjectIds :
            db_vars' # db_vars /\ RowsOf(a)' = RowsOf(a)
                => DashboardsOf(a)' = DashboardsOf(a)]_vars

C21_NotStale == measuring = EmptyDict => C12_CurrentValueIsLatest

\* C21 for a request served undisturbed: when the request that commits read
\* the metric's present current_value (no other request committed for the
\* metric in between), a fresh cache stays fresh
C21_OneAtATime ==
    [][\A r \in DOMAIN measuring \ DOMAIN measuring' :
         /\ C12_CurrentValueIsLatest
         /\ measuring[r].metric_id \in DOMAIN metrics
         /\ measuring[r].loaded = <<metrics[measuring[r].metric_id].current_value>>
         => C12_CurrentValueIsLatest']_vars

(* ------------- the dashboard after a measurement is deleted ------------ *)
\* what delete_measurement of a metric's latest measurement leaves behind:
\* a stored current_value that is not the value of a latest measurement
LeftBehind(m) ==
    /\ ~IsNone(metrics[m].current_value)
    /\ \A i \in LatestRows(m) :
            i = 0 \/ metrics[m].current_value # Some(measurements[i].value)

\* the dashboard entry of metric m shows the value of a latest measurement of
\* m, and shows no value and progress 0 when m has no measurement
ShowsLatest(m) ==
    /\ metrics[m].name \in DOMAIN response.metrics_summary
    /\ LET entry == response.metrics_summary[metrics[m].name]
       IN  \E i \in LatestRows(m) :
            IF i = 0
            THEN IsNone(entry.current) /\ entry.progress_percent = Float(0)
            ELSE entry.current = Some(measurements[i].value)

\* C22: the dashboard of a project with a metric whose latest measurement
\* was deleted is returned, and its current for every active metric is the
\* value of the metric's remaining latest measurement, absent with
\* progress_percent 0 when none remains
C22_DashboardAfterDelete ==
    (/\ program = "api"
     /\ response.op = "get_project_dashboard"
     /\ response.project_id \in projects
     /\ \E m \in ProjectMetrics(response.project_id) :
            metrics[m].is_active /\ LeftBehind(m))
    => /\ response.status = "ok"
       /\ \A m \in ProjectMetrics(response.project_id) :
            metrics[m].is_active => ShowsLatest(m)

\* C22 as far as it holds: every entry of metrics_summary that the call
\* built before it raised is the entry of an active metric of the project
\* and shows the metric's remaining latest measurement, not the stored value
C22_BuiltFromMeasurements ==
    (/\ program = "api"
     /\ response.op = "get_project_dashboard"
     /\ response.project_id \in projects)
    => \A name \in DOMAIN response.metrics_summary :
        \E m \in ProjectMetrics(response.project_id) :
            /\ metrics[m].is_active
            /\ metrics[m].name = name
            /\ ShowsLatest(m)

(* ------------------------------ delete_metric -------------------------- *)
\* every entry of the summaries of a dashboard call carries the name of an
\* active metric of the project
OnlyActiveSummarised ==
    (program = "api" /\ response.op = "get_project_dashboard") =>
        \A name \in DOMAIN response.metrics_summary \cup DOMAIN response.roi_summary :
            \E m \in get_project_metrics(response.project_id, TRUE) :
                metrics[m].name = name

\* C23: delete_metric of an existing metric clears is_active and changes
\* nothing else: the metric is still returned by get_metric, the measurements
\* stay, the metric is not among get_project_metrics(active_only true), and
\* delete_metric of an inactive metric changes nothing; the summaries a
\* dashboard call builds have entries of active metrics only
C23_SoftDelete ==
    [][/\ \A m \in DOMAIN metrics :
            delete_metric(m) =>
                /\ metrics' = [metrics EXCEPT ![m].is_active = FALSE]
                /\ UNCHANGED <<projects, measurements, deliverables,
                               stakeholders, project_stakeholders, row_vars,
                               s_vars>>
                /\ get_metric(m)' = Some([metrics[m] EXCEPT !.is_active = FALSE])
                /\ m \notin get_project_metrics(metrics[m].project_id, TRUE)'
                /\ m \in get_project_metrics(metrics[m].project_id, FALSE)'
                /\ ~metrics[m].is_active => UNCHANGED db_vars
       /\ OnlyActiveSummarised']_vars

\* C23's case: a metric with a measurement was deleted, and a dashboard
\* call for its project summarised another metric
C23_DeletedMetricNotSummarised ==
    /\ program = "api"
    /\ response.op = "get_project_dashboard"
    /\ response.metrics_summary # EmptyDict
    /\ \E m \in DOMAIN metrics :
        /\ ~metrics[m].is_active
        /\ metrics[m].project_id = response.project_id
        /\ \E i \in DOMAIN measurements : measurements[i].metric_id = m

(* ------------------- operations on ids that do not exist --------------- *)
\* the call answered not-found and no table has changed
AnsweredNotFound(op) ==
    /\ response' = NotFound(op)
    /\ UNCHANGED <<db_vars, users>>

\* C24: update_project, delete_project, get_project_dashboard, update_metric,
\* delete_metric, delete_measurement, update_stakeholder and
\* delete_stakeholder, called with an id that no row has, answer not-found
\* and leave every table as it was
C24_NotFound ==
    [][/\ \A p \in ProjectIds \ projects :
            /\ \A u \in ProjectUpdates :
                    update_project(p, u) => AnsweredNotFound("update_project")
            /\ delete_project(p) => AnsweredNotFound("delete_project")
            /\ dashboard(p) =>
                    /\ response' = [NotFound("get_project_dashboard")
                                        EXCEPT !.project_id = p]
                    /\ UNCHANGED <<db_vars, users>>
       /\ \A m \in MetricIds \ DOMAIN metrics :
            /\ \A u \in MetricUpdates :
                    update_metric(m, u) => AnsweredNotFound("update_metric")
            /\ delete_metric(m) => AnsweredNotFound("delete_metric")
       /\ \A i \in MeasurementIds \ DOMAIN measurements :
            delete_measurement(i) => AnsweredNotFound("delete_measurement")
       /\ \A k \in StakeholderIds \ stakeholders :
            /\ \A u \in StakeholderUpdates :
                    update_stakeholder(k, u) => AnsweredNotFound("update_stakeholder")
            /\ delete_stakeholder(k) => AnsweredNotFound("delete_stakeholder")
       /\ response'.status = "not_found" => UNCHANGED <<db_vars, users>>]_vars

\* C24's case: delete_measurement was called with an id that no measurement
\* has while the store holds a measurement
C24_UnknownMeasurement ==
    /\ response = NotFound("delete_measurement")
    /\ measurements # EmptyDict
    /\ projects # {}

(* --------------------------- template metrics -------------------------- *)
\* the template predefined for the project type with this value
PredefinedTemplate(project_type) ==
    IF project_type = "infrastructure" THEN _infrastructure_metrics
    ELSE IF project_type = "software_development" THEN _software_development_metrics
         ELSE _digital_transformation_metrics

\* C25: create_project with use_template true and one of the three types
\* stores the project with exactly the three template metrics of its type,
\* each owned by the new project, active and without current value; with
\* use_template false it stores no metric
C25_TemplateMetrics ==
    [][\A project_type \in TemplateTypes, use_template \in BOOLEAN :
         create_project(project_type, "planning", use_template) =>
            LET added == DOMAIN metrics' \ DOMAIN metrics
                template == PredefinedTemplate(project_type)
            IN  /\ DOMAIN metrics \subseteq DOMAIN metrics'
                /\ \A m \in DOMAIN metrics : metrics'[m] = metrics[m]
                /\ Cardinality(added) = IF use_template THEN Len(template) ELSE 0
                /\ use_template =>
                     {metrics'[m].name : m \in added}
                        = {template[i].name : i \in DOMAIN template}
                /\ \A m \in added :
                    /\ metrics'[m].project_id \in projects' \ projects
                    /\ metrics'[m].is_active
                    /\ IsNone(metrics'[m].current_value)]_vars

\* C25 as far as it holds: create_project stores the project with its type
\* and no metric, whatever use_template is
C25_NoMetricStored ==
    [][\A project_type \in TemplateTypes, use_template \in BOOLEAN :
         create_project(project_type, "planning", use_template) =>
            /\ metrics' = metrics
            /\ \E p \in projects' \ projects :
                project_data'[p].project_type = project_type]_vars

(* ------------------- stakeholders assigned to projects ----------------- *)
\* what assign_to_project and remove_from_project do in a step: with the
\* stakeholder and the project they answer True and the association table
\* gains, or loses, the one link and keeps every other; assigning a linked
\* stakeholder and removing one that is not linked change nothing; without
\* the stakeholder or the project they answer False and change nothing
MembershipCalls ==
    \A k \in StakeholderIds, p \in ProjectIds :
        LET link == <<p, k>>
            both == k \in stakeholders /\ p \in projects
        IN  /\ assign_to_project(k, p) =>
                IF both
                THEN /\ response' = NoResponse
                     /\ link \in project_stakeholders'
                     /\ project_stakeholders' \ {link} = project_stakeholders \ {link}
                     /\ link \in project_stakeholders => UNCHANGED db_vars
                ELSE /\ response' = NotFound("assign_to_project")
                     /\ UNCHANGED db_vars
            /\ remove_from_project(k, p) =>
                IF both
                THEN /\ response' = NoResponse
                     /\ link \notin project_stakeholders'
                     /\ project_stakeholders' \ {link} = project_stakeholders \ {link}
                     /\ link \notin project_stakeholders => UNCHANGED db_vars
                ELSE /\ response' = NotFound("remove_from_project")
                     /\ UNCHANGED db_vars

\* assign followed by remove gives back the association table
RestoresMembership(k, p) ==
    removed(assigned(project_stakeholders, k, p), k, p) = project_stakeholders

\* C26: membership behaves as a set (MembershipCalls), and assign followed
\* by remove restores the prior membership of a stakeholder that was not
\* linked to the project; of one that was linked, it removes the link
C26_MembershipIsSet ==
    [][/\ MembershipCalls
       /\ \A k \in stakeholders, p \in projects :
            IF <<p, k>> \in project_stakeholders
            THEN removed(assigned(project_stakeholders, k, p), k, p)
                    = project_stakeholders \ {<<p, k>>}
            ELSE RestoresMembership(k, p)]_vars

\* C26 as stated: assign followed by remove restores the prior membership,
\* whatever it was
C26_AssignRemoveRestores ==
    [][/\ MembershipCalls
       /\ \A k \in stakeholders, p \in projects : RestoresMembership(k, p)]_vars

\* C26's case: assign_to_project has linked a stakeholder to one of two
\* projects, so that calls on a linked and on an unlinked pair are possible
C26_LinkedAndRemoved ==
    /\ program = "api"
    /\ Cardinality(projects) = 2
    /\ Cardinality(project_stakeholders) = 1
    /\ response = NoResponse
    /\ stakeholders # {}

(* ---------------------- the two dashboards compared -------------------- *)
\* the rows of project p handed to the in-memory Project: its metrics in the
\* order mo, the measurements of its metrics in the order ro, its
\* deliverables
SameMetrics(mo) == [i \in DOMAIN mo |-> MetricRow(mo[i])]

SameMeasurements(ro) ==
    [i \in DOMAIN ro |-> [metric_id |-> measurements[ro[i]].metric_id,
                          value |-> measurements[ro[i]].value,
                          measured_at |-> measurements[ro[i]].measured_at]]

SameDeliverables(p) ==
    [d \in {x \in DOMAIN deliverables : deliverables[x].project_id = p}
        |-> deliverables[d].status]

MeasuredIn(p) ==
    {i \in DOMAIN measurements : measurements[i].metric_id \in ProjectMetrics(p)}

\* ProjectService.get_project_dashboard was called for an existing project
\* whose metrics are all active and have distinct names
ComparableDashboard ==
    /\ program = "api"
    /\ response.op = "get_project_dashboard"
    /\ response.project_id \in projects
    /\ \A m \in ProjectMetrics(response.project_id) :
        /\ metrics[m].is_active
        /\ \A n \in ProjectMetrics(response.project_id) :
                metrics[n].name = metrics[m].name => n = m

\* C27: for a project whose metrics are all active and have distinct names,
\* ProjectService.get_project_dashboard returns the metrics_summary, the
\* roi_summary and the deliverables_status that Project.get_value_dashboard
\* returns for the same metrics, measurements and deliverables
C27_DashboardsAgree ==
    ComparableDashboard =>
        \A mo \in Orders(ProjectMetrics(response.project_id)),
           ro \in Orders(MeasuredIn(response.project_id)) :
            LET d == get_value_dashboard(SameMetrics(mo), SameMeasurements(ro),
                                         SameDeliverables(response.project_id))
            IN  /\ response.status = d.status
                /\ response.metrics_summary = d.metrics_summary
                /\ response.roi_summary = d.roi_summary
                /\ response.deliverables_status = d.deliverables_status

\* C27 as far as it holds: every entry of metrics_summary and of roi_summary
\* that the service built before it raised is the entry of the in-memory
\* dashboard, for some order of the measurements taken at the same time
C27_BuiltAlike ==
    ComparableDashboard =>
        \A mo \in Orders(ProjectMetrics(response.project_id)) :
        \E ro \in Orders(MeasuredIn(response.project_id)) :
            LET d == get_value_dashboard(SameMetrics(mo), SameMeasurements(ro),
                                         SameDeliverables(response.project_id))
            IN  /\ \A name \in DOMAIN response.metrics_summary :
                    /\ name \in DOMAIN d.metrics_summary
                    /\ response.metrics_summary[name] = d.metrics_summary[name]
                /\ \A name \in DOMAIN response.roi_summary :
                    /\ name \in DOMAIN d.roi_summary
                    /\ response.roi_summary[name] = d.roi_summary[name]

(* ------------------- one entry for every active metric ----------------- *)
\* the active metrics of the project the dashboard was asked for
ActiveMetricsAsked == {m \in MetricsAsked : m.is_active}

\* C28: a dashboard that is returned has, in metrics_summary, exactly one
\* entry for every active metric of the project: as many entries as active
\* metrics, none missing
C28_OneEntryPerActiveMetric ==
    (DashboardAsked /\ response.status = "ok") =>
        /\ Cardinality(DOMAIN response.metrics_summary)
                = Cardinality(ActiveMetricsAsked)
        /\ \A m \in ActiveMetricsAsked : m.name \in DOMAIN response.metrics_summary

\* C28 as far as it holds: when no two metrics of the project have the same
\* name, a dashboard that is returned has one entry for every metric
C28_DistinctNames ==
    (/\ DashboardAsked
     /\ response.status = "ok"
     /\ \A m, n \in MetricsAsked : m.name = n.name => m = n) =>
        /\ Cardinality(DOMAIN response.metrics_summary) = Cardinality(MetricsAsked)
        /\ \A m \in MetricsAsked : m.name \in DOMAIN response.metrics_summary

(* -------------------- measurements of unknown metrics ------------------ *)
\* C29: in the in-memory Project, record_measurement for a metric id that is
\* not in the project's metrics raises ValueError and leaves the
\* measurements as they were; every recorded measurement refers to a metric
\* of the project, and get_value_dashboard returns without an error
C29_KnownMetricsOnly ==
    [][/\ \A id \in MetricIds, v \in Values, t \in Readings :
            (record_measurement(id, v, t) /\ SMetricIndex(id) = {}) =>
                /\ response'.status = "ValueError"
                /\ UNCHANGED s_vars
       /\ \A i \in DOMAIN s_measurements' :
            \E j \in DOMAIN s_metrics' :
                s_metrics'[j].id = s_measurements'[i].metric_id
       /\ response'.op = "get_value_dashboard" => response'.status = "ok"]_vars

\* C29's case: record_measurement was refused for an unknown metric id in a
\* project that has a metric and a measurement of it
C29_RefusedAfterRecording ==
    /\ program = "script"
    /\ response.op = "record_measurement"
    /\ response.status = "ValueError"
    /\ s_measurements # <<>>

(* ------------------------------ register ------------------------------- *)
\* no two stored users share an email or a username
UniqueUsers ==
    \A u, v \in DOMAIN users :
        (users[u].email = users[v].email \/ users[u].username = users[v].username)
            => u = v

\* C30: no two stored users share an email or a username, and a register
\* call whose email or username is taken creates no user and is answered
\* with HTTP 400, also when registrations run at the same time
C30_UniqueOrRejected ==
    [][/\ UniqueUsers'
       /\ \A r \in DOMAIN registering :
            (/\ create_user(r)
             /\ \/ get_user_by_email(registering[r].email) # {}
                \/ get_user_by_username(registering[r].username) # {})
            => /\ UNCHANGED users
               /\ response' \in {Registered("400", 25), Registered("400", 31)}]_vars

\* C30 as far as it holds: no two stored users share an email or a username,
\* a register call whose email or username is taken creates no user, and it
\* is answered with HTTP 400 when the query of register finds the user
C30_UniqueUsers ==
    [][/\ UniqueUsers'
       /\ \A r \in RequestIds, email \in Emails, username \in Usernames :
            (register_email(r, email, username) /\ get_user_by_email(email) # {})
                => UNCHANGED users /\ response' = Registered("400", 25)
       /\ \A r \in DOMAIN registering :
            /\ (register_username(r)
                    /\ get_user_by_username(registering[r].username) # {})
                => UNCHANGED users /\ response' = Registered("400", 31)
            /\ (/\ create_user(r)
                /\ \/ get_user_by_email(registering[r].email) # {}
                   \/ get_user_by_username(registering[r].username) # {})
                => UNCHANGED users /\ response'.status = "IntegrityError"]_vars
====
